---- MODULE Spec2Model ----
(***************************************************************************)
(* CircuitCLI transaction intelligence: fingerprint deduplication across   *)
(* the import channels and the statement linker, modelled from the Python  *)
(* sources under src/circuitai.                                            *)
(*                                                                         *)
(* Text is modelled as a sequence of one-character strings, so that the    *)
(* upper-casing, filtering, substring and hashing steps of the code are    *)
(* computed rather than assumed.  Only printable ASCII occurs.             *)
(***************************************************************************)
EXTENDS Integers, Sequences, FiniteSets, TLC

VARIABLES
   acct_txns,               \* rows of table account_transactions, in rowid order
   card_txns,               \* rows of table card_transactions, in rowid order
   bills,                   \* rows of table bills, in rowid order
   next_id,                 \* number of ids handed out by new_id() so far
   amount_tolerance_cents,  \* StatementLinker.amount_tolerance_cents
   date_window_days,        \* StatementLinker.date_window_days
   result,                  \* what the last operation returned to its caller
   last_capture,            \* history: the data of the last import_transactions call, and
                            \* whether the call before it had the same data
   fn_in,                   \* inputs of a pure-function evaluation
   fn_out,                  \* its outputs
   subscriptions,           \* rows of table subscriptions, in rowid order
   runs                     \* the batch runs in progress: what each has read, and where it is

vars == <<acct_txns, card_txns, bills, next_id, amount_tolerance_cents,
          date_window_days, result, last_capture, fn_in, fn_out, subscriptions, runs>>

----------------------------------------------------------------------------
(* Characters and strings                                                  *)

\* The printable ASCII characters, code 32 (space) first.  The double quote
\* (34) and the backtick (96) are written as words; neither occurs in a text
\* of the model.
AsciiPrintable ==
   << " ", "!", "QUOTE", "#", "$", "%", "&", "'", "(", ")", "*", "+", ",", "-", ".", "/",
      "0", "1", "2", "3", "4", "5", "6", "7", "8", "9", ":", ";", "<", "=", ">", "?",
      "@", "A", "B", "C", "D", "E", "F", "G", "H", "I", "J", "K", "L", "M", "N", "O",
      "P", "Q", "R", "S", "T", "U", "V", "W", "X", "Y", "Z", "[", "\\", "]", "^", "_",
      "BACKTICK", "a", "b", "c", "d", "e", "f", "g", "h", "i", "j", "k", "l", "m", "n", "o",
      "p", "q", "r", "s", "t", "u", "v", "w", "x", "y", "z", "{", "|", "}", "~" >>

\* ord(c), tabulated
CharCode ==
   [c \in {AsciiPrintable[i] : i \in 1..Len(AsciiPrintable)} |->
      31 + (CHOOSE i \in 1..Len(AsciiPrintable) : AsciiPrintable[i] = c)]

Ord(c) == CharCode[c]

\* str.upper() on one ASCII character, tabulated
UpperCode ==
   [c \in DOMAIN CharCode |->
      IF CharCode[c] >= 97 /\ CharCode[c] <= 122 THEN AsciiPrintable[CharCode[c] - 32 - 31] ELSE c]

UpperChar(c) == UpperCode[c]

\* str.upper()
Upper(s) == [i \in 1..Len(s) |-> UpperChar(s[i])]

\* the character class [A-Z0-9]
IsAZ09(c) == (Ord(c) >= 65 /\ Ord(c) <= 90) \/ (Ord(c) >= 48 /\ Ord(c) <= 57)

DecimalDigits == <<"0", "1", "2", "3", "4", "5", "6", "7", "8", "9">>

RECURSIVE NatToStr(_)
NatToStr(n) == IF n < 10 THEN <<DecimalDigits[n + 1]>>
               ELSE NatToStr(n \div 10) \o <<DecimalDigits[(n % 10) + 1]>>

\* str(n) of a Python int, as the f-string renders amount_cents
IntToStr(n) == IF n < 0 THEN <<"-">> \o NatToStr(-n) ELSE NatToStr(n)

\* str.encode(): the UTF-8 bytes, one per ASCII character
Encode(s) == [i \in 1..Len(s) |-> Ord(s[i])]

----------------------------------------------------------------------------
(* hashlib.sha256: 32-bit words are kept as <<high 16 bits, low 16 bits>>  *)

Sha256K ==
   << <<17034, 12184>>, <<28983, 17553>>, <<46528, 64463>>, <<59829, 56229>>,
      <<14678, 49755>>, <<23025, 4593>>, <<37439, 33444>>, <<43804, 24277>>,
      <<55303, 43672>>, <<4739, 23297>>, <<9265, 34238>>, <<21772, 32195>>,
      <<29374, 23924>>, <<32990, 45566>>, <<39900, 1703>>, <<49563, 61812>>,
      <<58523, 27073>>, <<61374, 18310>>, <<4033, 40390>>, <<9228, 41420>>,
      <<11753, 11375>>, <<19060, 33962>>, <<23728, 43484>>, <<30457, 35034>>,
      <<38974, 20818>>, <<43057, 50797>>, <<45059, 10184>>, <<48985, 32711>>,
      <<50912, 3059>>, <<54695, 37191>>, <<1738, 25425>>, <<5161, 10599>>,
      <<10167, 2693>>, <<11803, 8504>>, <<19756, 28156>>, <<21304, 3347>>,
      <<25866, 29524>>, <<30314, 2747>>, <<33218, 51502>>, <<37490, 11397>>,
      <<41663, 59553>>, <<43034, 26187>>, <<49739, 35696>>, <<51052, 20899>>,
      <<53650, 59417>>, <<54937, 1572>>, <<62478, 13701>>, <<4202, 41072>>,
      <<6564, 49430>>, <<7735, 27656>>, <<10056, 30540>>, <<13488, 48309>>,
      <<14620, 3251>>, <<20184, 43594>>, <<23452, 51791>>, <<26670, 28659>>,
      <<29839, 33518>>, <<30885, 25455>>, <<33992, 30740>>, <<36039, 520>>,
      <<37054, 65530>>, <<42064, 27883>>, <<48889, 41975>>, <<50801, 30962>> >>

Sha256H0 ==
   << <<27145, 58983>>, <<47975, 44677>>, <<15470, 62322>>, <<42319, 62778>>,
      <<20750, 21119>>, <<39685, 26764>>, <<8067, 55723>>, <<23520, 52505>> >>

RECURSIVE BitXor(_, _, _)
BitXor(a, b, n) == IF n = 0 THEN 0 ELSE ((a + b) % 2) + 2 * BitXor(a \div 2, b \div 2, n - 1)
RECURSIVE BitAnd(_, _, _)
BitAnd(a, b, n) == IF n = 0 THEN 0 ELSE ((a % 2) * (b % 2)) + 2 * BitAnd(a \div 2, b \div 2, n - 1)

\* exclusive-or and conjunction of two 4-bit values, tabulated
XorTab == << >> \o [i \in 1..256 |-> BitXor((i - 1) \div 16, (i - 1) % 16, 4)]
AndTab == << >> \o [i \in 1..256 |-> BitAnd((i - 1) \div 16, (i - 1) % 16, 4)]
Xor16(a, b) == XorTab[(a \div 4096) * 16 + (b \div 4096) + 1] * 4096
             + XorTab[((a \div 256) % 16) * 16 + ((b \div 256) % 16) + 1] * 256
             + XorTab[((a \div 16) % 16) * 16 + ((b \div 16) % 16) + 1] * 16
             + XorTab[(a % 16) * 16 + (b % 16) + 1]
And16(a, b) == AndTab[(a \div 4096) * 16 + (b \div 4096) + 1] * 4096
             + AndTab[((a \div 256) % 16) * 16 + ((b \div 256) % 16) + 1] * 256
             + AndTab[((a \div 16) % 16) * 16 + ((b \div 16) % 16) + 1] * 16
             + AndTab[(a % 16) * 16 + (b % 16) + 1]

Pow2(n) == 2 ^ n
WXor(u, v) == <<Xor16(u[1], v[1]), Xor16(u[2], v[2])>>
WAnd(u, v) == <<And16(u[1], v[1]), And16(u[2], v[2])>>
WNot(u) == <<65535 - u[1], 65535 - u[2]>>
WAdd(u, v) == LET lo == u[2] + v[2] IN <<(u[1] + v[1] + (lo \div 65536)) % 65536, lo % 65536>>
RotR16(u, n) == IF n = 0 THEN u ELSE
   << (u[1] \div Pow2(n)) + (u[2] % Pow2(n)) * Pow2(16 - n),
      (u[2] \div Pow2(n)) + (u[1] % Pow2(n)) * Pow2(16 - n) >>
RotR(u, n) == IF n >= 16 THEN RotR16(<<u[2], u[1]>>, n - 16) ELSE RotR16(u, n)
ShR(u, n) == IF n >= 16 THEN <<0, u[1] \div Pow2(n - 16)>>
             ELSE << u[1] \div Pow2(n), (u[2] \div Pow2(n)) + (u[1] % Pow2(n)) * Pow2(16 - n) >>

\* the message, a 1 bit, zero bits and the bit length, to a multiple of 64 bytes
Pad(bytes) ==
   LET n == Len(bytes)
       total == ((n + 9 + 63) \div 64) * 64
   IN [i \in 1..total |->
         IF i <= n THEN bytes[i]
         ELSE IF i = n + 1 THEN 128
         ELSE IF i <= total - 4 THEN 0
         ELSE ((n * 8) \div Pow2(8 * (total - i))) % 256]

RECURSIVE Schedule(_, _)
Schedule(w, t) ==
   IF Len(w) >= 64 THEN w
   ELSE LET a == w[t - 15]
            b == w[t - 2]
            s0 == WXor(WXor(RotR(a, 7), RotR(a, 18)), ShR(a, 3))
            s1 == WXor(WXor(RotR(b, 17), RotR(b, 19)), ShR(b, 10))
        IN Schedule(Append(w, WAdd(WAdd(w[t - 16], s0), WAdd(w[t - 7], s1))), t + 1)

RECURSIVE Rounds(_, _, _)
Rounds(s, w, t) ==
   IF t > 64 \/ Len(s) # 8 THEN s
   ELSE LET a == s[1]
            e == s[5]
            S1 == WXor(WXor(RotR(e, 6), RotR(e, 11)), RotR(e, 25))
            ch == WXor(WAnd(e, s[6]), WAnd(WNot(e), s[7]))
            t1 == WAdd(WAdd(WAdd(s[8], S1), WAdd(ch, Sha256K[t])), w[t])
            S0 == WXor(WXor(RotR(a, 2), RotR(a, 13)), RotR(a, 22))
            maj == WXor(WXor(WAnd(a, s[2]), WAnd(a, s[3])), WAnd(s[2], s[3]))
            t2 == WAdd(S0, maj)
        IN Rounds(<<WAdd(t1, t2), a, s[2], s[3], WAdd(s[4], t1), e, s[6], s[7]>>, w, t + 1)

Compress(h, block) ==
   LET w16 == [i \in 1..16 |-> << block[4 * i - 3] * 256 + block[4 * i - 2],
                                  block[4 * i - 1] * 256 + block[4 * i] >>]
       r == Rounds(h, Schedule(w16, 17), 1)
   IN [i \in 1..8 |-> WAdd(h[i], r[i])]

RECURSIVE Blocks(_, _, _)
Blocks(h, m, k) ==
   IF 64 * k >= Len(m) \/ Len(h) # 8 THEN h
   ELSE Blocks(Compress(h, SubSeq(m, 64 * k + 1, 64 * k + 64)), m, k + 1)

HexDigits == <<"0","1","2","3","4","5","6","7","8","9","a","b","c","d","e","f">>
Hex16(v) == << HexDigits[(v \div 4096) + 1], HexDigits[((v \div 256) % 16) + 1],
               HexDigits[((v \div 16) % 16) + 1], HexDigits[(v % 16) + 1] >>
RECURSIVE HexWords(_, _)
HexWords(h, i) == IF i > Len(h) THEN <<>> ELSE Hex16(h[i][1]) \o Hex16(h[i][2]) \o HexWords(h, i + 1)
\* hashlib.sha256(bytes).hexdigest()
Sha256Hex(bytes) == HexWords(Blocks(Sha256H0, Pad(bytes), 0), 1)

----------------------------------------------------------------------------
(* Fingerprint generator                                                   *)

\* variant: the description is filtered without being upper-cased
NormalizeDescription_KeepCase(description) == SelectSeq(description, IsAZ09)

\* re.sub(r"[^A-Z0-9]", "", description.upper())
NormalizeDescription(description) == SelectSeq(Upper(description), IsAZ09)

FingerprintLen == 16

compute_txn_fingerprint(txn_date, description, amount_cents) ==
   LET normalized == NormalizeDescription(description)
       raw == txn_date \o <<"|">> \o normalized \o <<"|">> \o IntToStr(amount_cents)
   IN SubSeq(Sha256Hex(Encode(raw)), 1, FingerprintLen)

----------------------------------------------------------------------------
(* The store: accounts, cards, bills and the texts the channels deliver    *)

MaxTxns == 2

Accounts == {"acct-1", "acct-2"}
Cards == {"card-1"}

\* the account and the card the import channels of the model write to
ImportAccounts == {"acct-1"}
ImportCards == {"card-1"}

\* SQL NULL / Python None in a text column, in an id column and in due_day
NoText == <<>>
NoId == "none"
NoDay == 0

Date15 == <<"2", "0", "2", "6", "-", "0", "2", "-", "1", "5">>
Date12 == <<"2", "0", "2", "6", "-", "0", "2", "-", "1", "2">>

DescJcpl == <<"J", "C", "P", "L", " ", "P", "A", "Y", "M", "E", "N", "T">>
DescJcplVariant == <<"J", "c", "p", "l", "-", "P", "a", "y", "m", "e", "n", "t">>
DescGas == <<"E", "L", "I", "Z", "G", "A", "S", " ", "P", "A", "Y", "M", "E", "N", "T">>
DescOther == <<"R", "A", "N", "D", "O", "M", " ", "M", "E", "R", "C", "H", "A", "N", "T">>

\* INSERT INTO account_transactions / card_transactions: one new row.  The
\* columns the inserting statement leaves out take the schema defaults
\* (is_matched 0, linked_bill_id NULL).
AcctRow(id, account_id, description, amount_cents, transaction_date, fingerprint, plaid_txn_id) ==
   [id |-> id, account_id |-> account_id, description |-> description,
    amount_cents |-> amount_cents, transaction_date |-> transaction_date,
    txn_fingerprint |-> fingerprint, plaid_txn_id |-> plaid_txn_id,
    is_matched |-> FALSE, linked_bill_id |-> NoId]

CardRow(id, card_id, description, amount_cents, transaction_date, fingerprint, plaid_txn_id) ==
   [id |-> id, card_id |-> card_id, description |-> description,
    amount_cents |-> amount_cents, transaction_date |-> transaction_date,
    txn_fingerprint |-> fingerprint, plaid_txn_id |-> plaid_txn_id,
    is_matched |-> FALSE, linked_bill_id |-> NoId]

\* SELECT id FROM <table> WHERE txn_fingerprint = ?
HasFingerprint(rows, fingerprint) ==
   \E i \in 1..Len(rows) : rows[i].txn_fingerprint = fingerprint

TxnCount == Len(acct_txns) + Len(card_txns)

----------------------------------------------------------------------------
(* Bills                                                                   *)

\* A row of table bills as BillService.add_bill writes it: the pattern list
\* is seeded with the upper-cased provider, or empty without a provider.
Bill(id, patterns, amount_cents, due_day, is_active) ==
   [id |-> id, match_patterns |-> patterns, amount_cents |-> amount_cents,
    due_day |-> due_day, is_active |-> is_active]

BillJcpl == Bill("bill-jcpl", <<<<"J", "C", "P", "L">>>>, 14200, 15, TRUE)
BillJcplTwin == Bill("bill-jcpl-2", <<<<"J", "C", "P", "L">>>>, 14200, 15, TRUE)
BillGas == Bill("bill-gas", <<<<"E", "L", "I", "Z", "G", "A", "S">>>>, 9500, 12, TRUE)
BillJcplOff == Bill("bill-jcpl", <<<<"J", "C", "P", "L">>>>, 14200, 15, FALSE)

\* the bill tables the import model starts from
BillConfigs == { <<BillJcpl, BillGas>>, <<BillJcplOff, BillGas>> }

----------------------------------------------------------------------------
(* Vision capture: CaptureService.import_transactions                      *)

\* JSON null in the extracted data
JsonNull == "null"

\* One extracted transaction.  amount_cents is <<n>> for an integer and << >>
\* for null, on which int() raises.
CapTxn(date, description, amount, category) ==
   [date |-> date, description |-> description, amount_cents |-> amount, category |-> category]

CapJcpl == CapTxn(Date15, DescJcpl, <<-14200>>, "")
CapJcplVariant == CapTxn(Date15, DescJcplVariant, <<-14200>>, "")
CapGas == CapTxn(Date12, DescGas, <<-9700>>, "")
CapNoDescription == CapTxn(Date15, NoText, <<-9700>>, "")
CapNoAmount == CapTxn(Date12, DescGas, << >>, "")
CapNoCategory == CapTxn(Date12, DescGas, <<-9700>>, JsonNull)

CaptureBatches ==
   { <<CapJcplVariant, CapGas>>, <<CapNoAmount, CapJcpl>>, <<CapNoCategory, CapNoDescription>> }

\* every (date, description, amount) a channel of the model can hand to the
\* fingerprint generator
FingerprintInputs ==
   {Date15, Date12} \X {DescJcpl, DescJcplVariant, DescGas, DescOther, NoText} \X {-14200, -9700}

\* compute_txn_fingerprint tabulated over FingerprintInputs (merging with the
\* empty function makes the table a stored value, computed once)
FingerprintTable ==
   [t \in FingerprintInputs |-> compute_txn_fingerprint(t[1], t[2], t[3])] @@ << >>

Fingerprint(txn_date, description, amount_cents) ==
   FingerprintTable[<<txn_date, description, amount_cents>>]

\* variant: the fingerprint is looked up in account_transactions only
CaptureDuplicate_AccountOnly(acct, card, fingerprint) == HasFingerprint(acct, fingerprint)

\* "existing_acct or existing_card": the fingerprint is looked up in BOTH tables
CaptureDuplicate(acct, card, fingerprint) ==
   HasFingerprint(acct, fingerprint) \/ HasFingerprint(card, fingerprint)

\* a transaction that passes int() and the missing-field check
CapParses(txn) == Len(txn.amount_cents) = 1 /\ txn.date # NoText /\ txn.description # NoText

\* Op applied to the value of e, which is computed once
Then(e, Op(_)) == CHOOSE r \in {Op(v) : v \in {e}} : TRUE

\* The body of the for loop for transaction i; st carries the two tables,
\* the id counter and the three tallies.
ImportStep(txn, i, account_id, entity_type, st) ==
   LET failed == [st EXCEPT !.errors = Append(@, i - 1)]
       fingerprint == Fingerprint(txn.date, txn.description, txn.amount_cents[1])
   IN IF Len(txn.amount_cents) = 0 THEN failed
      ELSE IF txn.date = NoText \/ txn.description = NoText THEN failed
      ELSE IF CaptureDuplicate(st.acct, st.card, fingerprint)
           THEN [st EXCEPT !.skipped = @ + 1]
      ELSE IF txn.category = JsonNull THEN failed
      ELSE IF entity_type = "account"
           THEN [st EXCEPT !.acct = Append(@, AcctRow(st.next_id + 1, account_id, txn.description,
                                        txn.amount_cents[1], txn.date, fingerprint, NoId)),
                           !.next_id = @ + 1, !.imported = @ + 1]
      ELSE [st EXCEPT !.card = Append(@, CardRow(st.next_id + 1, account_id, txn.description,
                                        txn.amount_cents[1], txn.date, fingerprint, NoId)),
                      !.next_id = @ + 1, !.imported = @ + 1]

\* The for loop, from transaction i on
RECURSIVE ImportLoop(_, _, _, _, _)
ImportLoop(transactions, i, account_id, entity_type, st) ==
   IF i > Len(transactions) THEN st
   ELSE Then(ImportStep(transactions[i], i, account_id, entity_type, st),
             LAMBDA next : ImportLoop(transactions, i + 1, account_id, entity_type, next))

import_transactions(data, account_id, entity_type) ==
   \E st \in {ImportLoop(data, 1, account_id, entity_type,
                           [acct |-> acct_txns, card |-> card_txns, next_id |-> next_id,
                            imported |-> 0, skipped |-> 0, errors |-> << >>])} :
      /\ Len(st.acct) + Len(st.card) <= MaxTxns
      /\ acct_txns' = st.acct
      /\ card_txns' = st.card
      /\ next_id' = st.next_id
      /\ result' = [op |-> "import_transactions", data |-> data, entity_type |-> entity_type,
                    account_id |-> account_id, imported |-> st.imported,
                    skipped |-> st.skipped, errors |-> st.errors]
      /\ last_capture' = [data |-> data, repeated |-> data = last_capture.data]
      /\ UNCHANGED <<bills, amount_tolerance_cents, date_window_days, fn_in, fn_out, subscriptions, runs>>

CaptureImport ==
   \E data \in CaptureBatches :
      \/ \E a \in ImportAccounts : import_transactions(data, a, "account")
      \/ \E c \in ImportCards : import_transactions(data, c, "card")

----------------------------------------------------------------------------
(* Statement linker: scoring                                               *)

\* Python's "needle in haystack" on strings
Contains(haystack, needle) ==
   \E i \in 0..(Len(haystack) - Len(needle)) : SubSeq(haystack, i + 1, i + Len(needle)) = needle

Abs(n) == IF n < 0 THEN -n ELSE n
Max(a, b) == IF a >= b THEN a ELSE b
Min(a, b) == IF a <= b THEN a ELSE b

IsDigit(c) == Ord(c) >= 48 /\ Ord(c) <= 57
DigitVal(c) == Ord(c) - 48

RECURSIVE DigitsToNat(_)
DigitsToNat(s) == IF s = << >> THEN 0 ELSE 10 * DigitsToNat(SubSeq(s, 1, Len(s) - 1)) + DigitVal(s[Len(s)])

IsLeap(y) == (y % 4 = 0 /\ y % 100 # 0) \/ y % 400 = 0

\* calendar.monthrange(year, month)[1]
LastDay(y, m) == IF m = 2 THEN (IF IsLeap(y) THEN 29 ELSE 28)
                 ELSE IF m \in {4, 6, 9, 11} THEN 30 ELSE 31

\* date.fromisoformat(txn_date_str[:10]) for the form YYYY-MM-DD:
\* <<year, month, day>>, or << >> where it raises ValueError
ParseIsoDate(txn_date_str) ==
   LET s == SubSeq(txn_date_str, 1, Min(10, Len(txn_date_str)))
       wellFormed == /\ Len(s) = 10
                     /\ s[5] = "-" /\ s[8] = "-"
                     /\ \A i \in {1, 2, 3, 4, 6, 7, 9, 10} : IsDigit(s[i])
       y == DigitsToNat(SubSeq(s, 1, 4))
       m == DigitsToNat(SubSeq(s, 6, 7))
       d == DigitsToNat(SubSeq(s, 9, 10))
   IN IF wellFormed /\ y >= 1 /\ m >= 1 /\ m <= 12 /\ d >= 1 /\ d <= LastDay(y, m)
      THEN <<y, m, d>> ELSE << >>

\* Scores are floats in the code.  Here a score is the integer
\* score * ScoreDen, which is exact: every term of the sum is a multiple of
\* 1 / (10 * tolerance * window).
ScoreDen(tolerance, window) == 10 * Max(tolerance, 1) * Max(window, 1)

\* 1. Description pattern match (0.5 weight)
DescriptionSignal(txn, bill, tolerance, window) ==
   IF \E k \in 1..Len(bill.match_patterns) :
         Contains(Upper(txn.description), Upper(bill.match_patterns[k]))
   THEN 5 * Max(tolerance, 1) * Max(window, 1) ELSE 0

\* the amount signal without the "diff <= tolerance" test: the falloff goes on
\* below zero
AmountSignal_NoFloor(txn, bill, tolerance, window) ==
   IF bill.amount_cents # 0 /\ txn.amount_cents # 0
   THEN LET diff == Abs(Abs(txn.amount_cents) - bill.amount_cents)
        IN IF diff = 0 THEN 3 * Max(tolerance, 1) * Max(window, 1)
           ELSE 3 * (tolerance - diff) * Max(window, 1)
   ELSE 0

\* the amount signal comparing the signed transaction amount
AmountSignal_Signed(txn, bill, tolerance, window) ==
   IF bill.amount_cents # 0 /\ txn.amount_cents # 0
   THEN LET diff == Abs(txn.amount_cents - bill.amount_cents)
        IN IF diff = 0 THEN 3 * Max(tolerance, 1) * Max(window, 1)
           ELSE IF diff <= tolerance THEN 3 * (tolerance - diff) * Max(window, 1)
           ELSE 0
   ELSE 0

\* 2. Amount match (0.3 weight)
AmountSignal(txn, bill, tolerance, window) ==
   IF bill.amount_cents # 0 /\ txn.amount_cents # 0
   THEN LET diff == Abs(Abs(txn.amount_cents) - bill.amount_cents)
        IN IF diff = 0 THEN 3 * Max(tolerance, 1) * Max(window, 1)
           ELSE IF diff <= tolerance THEN 3 * (tolerance - diff) * Max(window, 1)
           ELSE 0
   ELSE 0

\* 3. Date proximity (0.2 weight)
date_proximity_score(txn_date_str, due_day, tolerance, window) ==
   LET txn_date == ParseIsoDate(txn_date_str)
   IN IF txn_date = << >> THEN 0
      ELSE LET expected == Min(due_day, LastDay(txn_date[1], txn_date[2]))
               diff_days == Abs(txn_date[3] - expected)
           IN IF diff_days = 0 THEN 2 * Max(tolerance, 1) * Max(window, 1)
              ELSE IF diff_days <= window THEN 2 * Max(tolerance, 1) * (window - diff_days)
              ELSE 0

DateSignal(txn, bill, tolerance, window) ==
   IF bill.due_day # NoDay /\ txn.transaction_date # NoText
   THEN date_proximity_score(txn.transaction_date, bill.due_day, tolerance, window)
   ELSE 0

score_match(txn, bill, tolerance, window) ==
   DescriptionSignal(txn, bill, tolerance, window)
   + AmountSignal(txn, bill, tolerance, window)
   + DateSignal(txn, bill, tolerance, window)

\* the acceptance test "score >= 0.4"
Accepts(score, tolerance, window) == 10 * score >= 4 * ScoreDen(tolerance, window)

\* The loop of _find_best_match from bill k on: <<best_id, best_score>>
RECURSIVE BestFrom(_, _, _, _, _, _)
BestFrom(txn, bs, k, best, tolerance, window) ==
   IF k > Len(bs) THEN best
   ELSE LET score == score_match(txn, bs[k], tolerance, window)
        IN BestFrom(txn, bs, k + 1,
                    IF score > best[2] /\ Accepts(score, tolerance, window)
                    THEN <<bs[k].id, score>> ELSE best,
                    tolerance, window)

\* variant: the bills are tried in the reverse of the table's order
find_best_match_Reversed(txn, bs, tolerance, window) ==
   BestFrom(txn, [k \in 1..Len(bs) |-> bs[Len(bs) + 1 - k]], 1, <<NoId, 0>>, tolerance, window)

\* <<bill_id, score>>, or <<NoId, 0>> for None
find_best_match(txn, bs, tolerance, window) == BestFrom(txn, bs, 1, <<NoId, 0>>, tolerance, window)

----------------------------------------------------------------------------
(* Statement linker: operations                                            *)

\* the bill query without its WHERE clause
ActiveBills_All(bs) == bs

\* SELECT ... FROM bills WHERE is_active = 1
ActiveBills(bs) == SelectSeq(bs, LAMBDA b : b.is_active)

\* the scan without "is_matched = 0"
Scanned_AlsoMatched(row, account_id) == account_id = NoId \/ row.account_id = account_id

\* variant: the scan without the account filter
Scanned_AnyAccount(row, account_id) == ~row.is_matched

\* the WHERE clause of the unmatched scan; an empty account_id is no filter
Scanned(row, account_id) ==
   ~row.is_matched /\ (account_id = NoId \/ row.account_id = account_id)

\* the matches list, from row i on
RECURSIVE MatchesFrom(_, _, _, _, _, _)
MatchesFrom(rows, i, account_id, bs, tolerance, window) ==
   IF i > Len(rows) THEN << >>
   ELSE LET best == find_best_match(rows[i], bs, tolerance, window)
            tail == MatchesFrom(rows, i + 1, account_id, bs, tolerance, window)
        IN IF Scanned(rows[i], account_id) /\ best[1] # NoId
           THEN <<[transaction_id |-> rows[i].id, bill_id |-> best[1],
                   description |-> rows[i].description, score |-> best[2]]>> \o tail
           ELSE tail

\* UPDATE account_transactions SET is_matched = 1, linked_bill_id = ? WHERE id = ?
SetMatched(rows, id, bill_id) ==
   [i \in 1..Len(rows) |->
      IF rows[i].id = id THEN [rows[i] EXCEPT !.is_matched = TRUE, !.linked_bill_id = bill_id]
      ELSE rows[i]]

RECURSIVE ApplyMatches(_, _, _)
ApplyMatches(rows, matches, k) ==
   IF k > Len(matches) THEN rows
   ELSE ApplyMatches(SetMatched(rows, matches[k].transaction_id, matches[k].bill_id), matches, k + 1)

UnmatchedCount(rows, account_id) ==
   Cardinality({i \in 1..Len(rows) : Scanned(rows[i], account_id)})

\* The returned summary is kept in result, together with the history flag
\* repeated: the operation before this one was link_transactions with the
\* same account filter.
link_transactions(account_id) ==
   LET matches == MatchesFrom(acct_txns, 1, account_id, ActiveBills(bills),
                              amount_tolerance_cents, date_window_days)
   IN /\ acct_txns' = ApplyMatches(acct_txns, matches, 1)
      /\ result' = [op |-> "link_transactions", account_id |-> account_id,
                    total_unmatched |-> UnmatchedCount(acct_txns, account_id),
                    matched |-> Len(matches), matches |-> matches,
                    repeated |-> result.op = "link_transactions" /\ result.account_id = account_id]
      /\ UNCHANGED <<card_txns, bills, next_id, amount_tolerance_cents, date_window_days,
                     last_capture, fn_in, fn_out, subscriptions, runs>>

LinkTransactions == \E account_id \in Accounts \cup {NoId} : link_transactions(account_id)

\* str.split(): the maximal runs of non-blank characters
RECURSIVE Split(_)
Split(s) ==
   IF s = << >> THEN << >>
   ELSE IF s[1] = " " THEN Split(Tail(s))
   ELSE LET n == CHOOSE k \in 1..Len(s) :
                    /\ \A j \in 1..k : s[j] # " "
                    /\ (k = Len(s) \/ s[k + 1] = " ")
        IN <<SubSeq(s, 1, n)>> \o Split(SubSeq(s, n + 1, Len(s)))

\* " ".join(words)
RECURSIVE Join(_)
Join(words) ==
   IF words = << >> THEN << >>
   ELSE IF Len(words) = 1 THEN words[1]
   ELSE words[1] \o <<" ">> \o Join(Tail(words))

StopWords ==
   { <<"P", "A", "Y", "M", "E", "N", "T">>, <<"T", "O">>, <<"F", "R", "O", "M">>, <<"F", "O", "R">>, <<"T", "H", "E">>, <<"A", "C", "H">>, <<"D", "E", "B", "I", "T">>,
     <<"C", "R", "E", "D", "I", "T">>, <<"O", "N", "L", "I", "N", "E">> }

PatternWords == 3

\* variant: the pattern is appended without looking for it in the list
LearnedPatterns_AlwaysAppend(patterns, description) ==
   LET words == Split(Upper(description))
       meaningful == SelectSeq(words, LAMBDA w : w \notin StopWords)
   IN IF meaningful # << >>
      THEN Append(patterns, Join(SubSeq(meaningful, 1, Min(PatternWords, Len(meaningful)))))
      ELSE patterns

\* The pattern list of the bill after learn_pattern(bill_id, description)
LearnedPatterns(patterns, description) ==
   LET words == Split(Upper(description))
       meaningful == SelectSeq(words, LAMBDA w : w \notin StopWords)
       new_pattern == Join(SubSeq(meaningful, 1, Min(PatternWords, Len(meaningful))))
   IN IF meaningful # << >> /\ ~(\E k \in 1..Len(patterns) : patterns[k] = new_pattern)
      THEN Append(patterns, new_pattern) ELSE patterns

\* variant: the learned pattern replaces the list instead of extending it
learn_pattern_Overwrite(bs, bill_id, description) ==
   [k \in 1..Len(bs) |->
      IF bs[k].id = bill_id
      THEN [bs[k] EXCEPT !.match_patterns = LearnedPatterns(<< >>, description)]
      ELSE bs[k]]

learn_pattern(bs, bill_id, description) ==
   [k \in 1..Len(bs) |->
      IF bs[k].id = bill_id
      THEN [bs[k] EXCEPT !.match_patterns = LearnedPatterns(@, description)]
      ELSE bs[k]]

HasId(rows, id) == \E i \in 1..Len(rows) : rows[i].id = id
RowById(rows, id) == rows[CHOOSE i \in 1..Len(rows) : rows[i].id = id]

\* confirm_match: without the transaction nothing happens; with it, the
\* UPDATE runs under PRAGMA foreign_keys = ON, so a bill id that is not in
\* bills makes execute() raise DatabaseError before anything is written.
confirm_match(transaction_id, bill_id) ==
   LET found == HasId(acct_txns, transaction_id)
       billExists == HasId(bills, bill_id)
   IN /\ acct_txns' = IF found /\ billExists THEN SetMatched(acct_txns, transaction_id, bill_id)
                      ELSE acct_txns
      /\ bills' = IF found /\ billExists
                  THEN learn_pattern(bills, bill_id, RowById(acct_txns, transaction_id).description)
                  ELSE bills
      /\ result' = [op |-> "confirm_match",
                    raised |-> IF found /\ ~billExists THEN "DatabaseError" ELSE "none"]
      /\ UNCHANGED <<card_txns, next_id, amount_tolerance_cents, date_window_days,
                     last_capture, fn_in, fn_out, subscriptions, runs>>

\* an id that no row carries
MissingTxnId == 0
MissingBillId == "bill-missing"

ConfirmMatch ==
   \E transaction_id \in {acct_txns[i].id : i \in 1..Len(acct_txns)}
                         \cup {card_txns[i].id : i \in 1..Len(card_txns)} \cup {MissingTxnId},
      bill_id \in {bills[k].id : k \in 1..Len(bills)} \cup {MissingBillId} :
      confirm_match(transaction_id, bill_id)

\* The databases the linker is run on: up to MaxLinkTxns of these manually
\* entered account transactions, in this order, under one of the setups.
MaxLinkTxns == 2

LinkEvent(account_id, description, amount_cents, date) ==
   [account_id |-> account_id, description |-> description,
    amount_cents |-> amount_cents, date |-> date]

LinkEvents ==
   << LinkEvent("acct-1", DescJcpl, -14200, Date15),
      LinkEvent("acct-1", DescGas, -9700, Date12),
      LinkEvent("acct-2", DescOther, -14200, Date15),
      LinkEvent("acct-2", DescJcplVariant, 0, Date15),
      LinkEvent("acct-1", DescJcplVariant, -14350, Date12) >>

\* the rows of the picked events, with ids n + 1, n + 2, ...
RECURSIVE LinkRows(_, _, _)
LinkRows(picked, k, n) ==
   IF k > Len(LinkEvents) THEN << >>
   ELSE IF k \in picked
        THEN <<AcctRow(n + 1, LinkEvents[k].account_id, LinkEvents[k].description,
                       LinkEvents[k].amount_cents, LinkEvents[k].date, NoText, NoId)>>
             \o LinkRows(picked, k + 1, n + 1)
        ELSE LinkRows(picked, k + 1, n)

BillJcplZero == Bill("bill-jcpl", <<<<"J", "C", "P", "L">>>>, 0, 15, TRUE)
BillWater == Bill("bill-water", << >>, 6750, NoDay, TRUE)

LinkSetup(bs, tolerance, window) ==
   [bills |-> bs, amount_tolerance_cents |-> tolerance, date_window_days |-> window]

\* bill tables with the linker's amount tolerance and date window
LinkSetups ==
   { LinkSetup(<<BillJcpl, BillGas>>, 500, 7),
     LinkSetup(<<BillJcpl, BillJcplTwin>>, 500, 7),
     LinkSetup(<<BillJcplOff, BillGas>>, 200, 3),
     LinkSetup(<<BillJcplZero, BillWater>>, 500, 7),
     LinkSetup(<<BillGas, BillJcpl>>, 0, 0),
     LinkSetup(<< >>, 500, 7) }

----------------------------------------------------------------------------
(* CSV and PDF import adapters                                             *)

\* str.strip() (blanks are the only white space in the model's texts)
RECURSIVE Strip(_)
Strip(s) ==
   IF s = << >> THEN s
   ELSE IF s[1] = " " THEN Strip(Tail(s))
   ELSE IF s[Len(s)] = " " THEN Strip(SubSeq(s, 1, Len(s) - 1))
   ELSE s

\* amount_str.replace(",", "").replace("$", "").strip(), then the
\* parentheses of a negative amount turned into a minus sign
CleanAmount(amount_str) ==
   LET s == Strip(SelectSeq(amount_str, LAMBDA c : c \notin {",", "$"}))
   IN IF Len(s) >= 1 /\ s[1] = "(" /\ s[Len(s)] = ")"
      THEN <<"-">> \o SubSeq(s, 2, Len(s) - 1) ELSE s

CentsPerUnit == 100

\* int(float(amount_str) * 100) for plain decimal notation: <<cents>>, or
\* << >> where float() raises ValueError.  The product is taken exactly; the
\* amounts of the model have no fractional cents, where float and exact
\* arithmetic agree.
ParseCents(amount_str) ==
   LET neg == Len(amount_str) >= 1 /\ amount_str[1] = "-"
       body == IF Len(amount_str) >= 1 /\ amount_str[1] \in {"-", "+"} THEN Tail(amount_str) ELSE amount_str
       dots == {i \in 1..Len(body) : body[i] = "."}
       dot == IF dots = {} THEN Len(body) + 1 ELSE CHOOSE i \in dots : TRUE
       whole == SubSeq(body, 1, dot - 1)
       frac == SubSeq(body, dot + 1, Len(body))
       valid == /\ Cardinality(dots) <= 1
                /\ Len(whole) + Len(frac) >= 1
                /\ \A i \in 1..Len(whole) : IsDigit(whole[i])
                /\ \A i \in 1..Len(frac) : IsDigit(frac[i])
       frac2 == SubSeq(frac \o <<"0", "0">>, 1, 2)
       cents == DigitsToNat(whole) * CentsPerUnit + DigitsToNat(frac2)
   IN IF valid THEN <<IF neg THEN -cents ELSE cents>> ELSE << >>

FileRow(date, description, amount) == [date |-> date, description |-> description, amount |-> amount]

CsvJcpl == FileRow(Date15, DescJcpl, <<"-", "1", "4", "2", ".", "0", "0">>)
CsvGas == FileRow(Date12, DescGas, <<"(", "$", "9", "7", ".", "0", "0", ")">>)
CsvOther == FileRow(Date15, DescOther, <<"-", "1", "4", "2">>)
CsvNoAmount == FileRow(Date15, DescJcpl, NoText)

CsvFiles == { <<CsvJcpl>>, <<CsvGas, CsvNoAmount>>, <<CsvOther>> }

\* The body of the row loop of CsvImportAdapter.sync for row i with the
\* parsed amount.  The dedup query reads account_transactions only.
CsvStep(row, amount, i, account_id, st) ==
   LET fingerprint == Fingerprint(row.date, row.description, amount[1])
   IN IF amount = << >> THEN [st EXCEPT !.errors = Append(@, i + 1)]
      ELSE IF HasFingerprint(st.acct, fingerprint) THEN st
      ELSE [st EXCEPT !.acct = Append(@, AcctRow(st.next_id + 1, account_id, row.description,
                                      amount[1], row.date, fingerprint, NoId)),
                      !.next_id = @ + 1, !.imported = @ + 1]

\* The row loop, from row i on
RECURSIVE CsvLoop(_, _, _, _)
CsvLoop(rows, i, account_id, st) ==
   IF i > Len(rows) THEN st
   ELSE Then(ParseCents(CleanAmount(rows[i].amount)),
             LAMBDA amount :
                Then(CsvStep(rows[i], amount, i, account_id, st),
                     LAMBDA next : CsvLoop(rows, i + 1, account_id, next)))

\* UPDATE ... for every unmatched row whose upper-cased description is LIKE
\* %PATTERN%; <<rows, number of rows updated>>.  No pattern of the model
\* holds a LIKE wildcard.
CsvLinkPattern(rows, bill_id, pattern) ==
   LET hits == {i \in 1..Len(rows) : ~rows[i].is_matched
                                     /\ Contains(Upper(rows[i].description), Upper(pattern))}
   IN << [i \in 1..Len(rows) |->
            IF i \in hits THEN [rows[i] EXCEPT !.is_matched = TRUE, !.linked_bill_id = bill_id]
            ELSE rows[i]],
         Cardinality(hits) >>

\* CsvImportAdapter._run_statement_linking from pattern p of active bill k on
RECURSIVE CsvLinkFrom(_, _, _, _, _)
CsvLinkFrom(rows, bs, k, p, linked) ==
   IF k > Len(bs) THEN <<rows, linked>>
   ELSE IF p > Len(bs[k].match_patterns) THEN CsvLinkFrom(rows, bs, k + 1, 1, linked)
   ELSE Then(CsvLinkPattern(rows, bs[k].id, bs[k].match_patterns[p]),
             LAMBDA r : CsvLinkFrom(r[1], bs, k, p + 1, linked + r[2]))

csv_run_statement_linking(rows, bs) == CsvLinkFrom(rows, ActiveBills(bs), 1, 1, 0)

csv_sync(rows, account_id) ==
   \E st \in {CsvLoop(rows, 1, account_id,
                        [acct |-> acct_txns, next_id |-> next_id, imported |-> 0, errors |-> << >>])} :
   \E lk \in {csv_run_statement_linking(st.acct, bills)} :
      /\ Len(st.acct) + Len(card_txns) <= MaxTxns
      /\ acct_txns' = lk[1]
      /\ next_id' = st.next_id
      /\ result' = [op |-> "csv_sync", account_id |-> account_id, imported |-> st.imported,
                    linked |-> lk[2], errors |-> st.errors]
      /\ UNCHANGED <<card_txns, bills, amount_tolerance_cents, date_window_days,
                     last_capture, fn_in, fn_out, subscriptions, runs>>

CsvImport ==
   \E rows \in CsvFiles, account_id \in ImportAccounts : csv_sync(rows, account_id)

PdfJcpl == FileRow(Date15, DescJcpl, <<"-", "$", "1", "4", "2", ".", "0", "0">>)
PdfGas == FileRow(Date12, <<" ", "E", "L", "I", "Z", "G", "A", "S", " ", "P", "A", "Y", "M", "E", "N", "T", " ">>, <<"(", "9", "7", ".", "0", "0", ")">>)
PdfNoDate == FileRow(NoText, DescOther, <<"-", "1", "4", "2", ".", "0", "0">>)
PdfDash == FileRow(Date15, DescOther, <<"-">>)

PdfTables == { <<PdfGas, PdfNoDate>>, <<PdfDash, PdfJcpl>> }

\* The body of the row loop of PdfImportAdapter._extract_transactions for
\* row i, with the cleaned amount text and the parsed amount
PdfStep(row, amount_str, amount, i, account_id, st) ==
   LET txn_date == Strip(row.date)
       description == Strip(row.description)
       fingerprint == Fingerprint(txn_date, description, amount[1])
   IN IF txn_date = NoText \/ description = NoText THEN st
      ELSE IF amount_str = NoText \/ amount_str = <<"-">> THEN st
      ELSE IF amount = << >> THEN [st EXCEPT !.errors = Append(@, i + 1)]
      ELSE IF HasFingerprint(st.acct, fingerprint) THEN st
      ELSE [st EXCEPT !.acct = Append(@, AcctRow(st.next_id + 1, account_id, description,
                                      amount[1], txn_date, fingerprint, NoId)),
                      !.next_id = @ + 1, !.imported = @ + 1]

\* The row loop, from row i on
RECURSIVE PdfLoop(_, _, _, _)
PdfLoop(rows, i, account_id, st) ==
   IF i > Len(rows) THEN st
   ELSE Then(CleanAmount(IF rows[i].amount = NoText THEN <<"0">> ELSE Strip(rows[i].amount)),
             LAMBDA amount_str :
                Then(ParseCents(amount_str),
                     LAMBDA amount :
                        Then(PdfStep(rows[i], amount_str, amount, i, account_id, st),
                             LAMBDA next : PdfLoop(rows, i + 1, account_id, next))))

pdf_extract_transactions(rows, account_id) ==
   \E st \in {PdfLoop(rows, 1, account_id,
                        [acct |-> acct_txns, next_id |-> next_id, imported |-> 0, errors |-> << >>])} :
      /\ Len(st.acct) + Len(card_txns) <= MaxTxns
      /\ acct_txns' = st.acct
      /\ next_id' = st.next_id
      /\ result' = [op |-> "pdf_sync", account_id |-> account_id, imported |-> st.imported,
                    errors |-> st.errors]
      /\ UNCHANGED <<card_txns, bills, amount_tolerance_cents, date_window_days,
                     last_capture, fn_in, fn_out, subscriptions, runs>>

PdfImport ==
   \E rows \in PdfTables, account_id \in ImportAccounts : pdf_extract_transactions(rows, account_id)

----------------------------------------------------------------------------
(* Manual entry and bank-API sync                                          *)

Event(date, description, amount_cents) ==
   [date |-> date, description |-> description, amount_cents |-> amount_cents]

ManualEntries == { Event(Date15, DescJcpl, -14200) }

\* AccountService.add_transaction: the model has no fingerprint field, the
\* column stays NULL
account_add_transaction(account_id, e) ==
   /\ acct_txns' = Append(acct_txns, AcctRow(next_id + 1, account_id, e.description, e.amount_cents,
                                             e.date, NoText, NoId))
   /\ next_id' = next_id + 1
   /\ result' = [op |-> "add_transaction", entity_type |-> "account", id |-> next_id + 1]
   /\ UNCHANGED <<card_txns, bills, amount_tolerance_cents, date_window_days,
                  last_capture, fn_in, fn_out, subscriptions, runs>>

\* CardService.add_transaction
card_add_transaction(card_id, e) ==
   /\ card_txns' = Append(card_txns, CardRow(next_id + 1, card_id, e.description, e.amount_cents,
                                             e.date, NoText, NoId))
   /\ next_id' = next_id + 1
   /\ result' = [op |-> "add_transaction", entity_type |-> "card", id |-> next_id + 1]
   /\ UNCHANGED <<acct_txns, bills, amount_tolerance_cents, date_window_days,
                  last_capture, fn_in, fn_out, subscriptions, runs>>

ManualEntry ==
   \E e \in ManualEntries :
      /\ TxnCount < MaxTxns
      /\ \/ \E a \in ImportAccounts : account_add_transaction(a, e)
         \/ \E c \in ImportCards : card_add_transaction(c, e)

\* plaid_accounts mapping rows: Plaid account id -> <<entity_type, entity_id>>
PlaidMapping == [ plaid_checking |-> <<"account", "acct-1">>, plaid_credit |-> <<"card", "card-1">> ]

\* a Plaid transaction; amount is in currency units, positive = money out
PlaidTxn(transaction_id, account_id, name, amount, date) ==
   [transaction_id |-> transaction_id, account_id |-> account_id, name |-> name,
    amount |-> amount, date |-> date]

PlaidTxns ==
   { PlaidTxn("plaid-txn-1", "plaid_checking", DescJcpl, 142, Date15),
     PlaidTxn("plaid-txn-1", "plaid_checking", DescGas, 97, Date12),
     PlaidTxn("plaid-txn-2", "plaid_credit", DescJcpl, 142, Date15) }

\* UPDATE <table> SET description, amount_cents, transaction_date WHERE plaid_txn_id = ?
PlaidUpdate(rows, plaid_txn_id, description, amount_cents, txn_date) ==
   [i \in 1..Len(rows) |->
      IF rows[i].plaid_txn_id = plaid_txn_id
      THEN [rows[i] EXCEPT !.description = description, !.amount_cents = amount_cents,
                           !.transaction_date = txn_date]
      ELSE rows[i]]

HasPlaidId(rows, plaid_txn_id) == \E i \in 1..Len(rows) : rows[i].plaid_txn_id = plaid_txn_id

\* PlaidService._upsert_transaction, for a Plaid account that is mapped.
\* amount_cents = -int(round(plaid_amount * 100)); no fingerprint is written.
upsert_transaction(txn) ==
   LET description == IF txn.name # NoText THEN txn.name ELSE <<"U", "n", "k", "n", "o", "w", "n">>
       amount_cents == -(txn.amount * CentsPerUnit)
       mapping == PlaidMapping[txn.account_id]
       entity_type == mapping[1]
       entity_id == mapping[2]
       existing == IF entity_type = "account" THEN HasPlaidId(acct_txns, txn.transaction_id)
                   ELSE HasPlaidId(card_txns, txn.transaction_id)
   IN /\ existing \/ TxnCount < MaxTxns
      /\ acct_txns' =
            IF entity_type # "account" THEN acct_txns
            ELSE IF existing
                 THEN PlaidUpdate(acct_txns, txn.transaction_id, description, amount_cents, txn.date)
            ELSE Append(acct_txns, AcctRow(next_id + 1, entity_id, description, amount_cents,
                                           txn.date, NoText, txn.transaction_id))
      /\ card_txns' =
            IF entity_type # "card" THEN card_txns
            ELSE IF existing
                 THEN PlaidUpdate(card_txns, txn.transaction_id, description, amount_cents, txn.date)
            ELSE Append(card_txns, CardRow(next_id + 1, entity_id, description, amount_cents,
                                           txn.date, NoText, txn.transaction_id))
      /\ next_id' = IF existing THEN next_id ELSE next_id + 1
      /\ result' = [op |-> "upsert_transaction", transaction_id |-> txn.transaction_id,
                    updated |-> existing]
      /\ UNCHANGED <<bills, amount_tolerance_cents, date_window_days, last_capture, fn_in, fn_out, subscriptions, runs>>

PlaidSync == \E txn \in PlaidTxns : upsert_transaction(txn)

----------------------------------------------------------------------------
(* Vendor normalizer: normalize_vendor                                     *)

\* the prefix list as written, before it is sorted
StripPrefixesWritten ==
   << <<"A", "U", "T", "O", "M", "A", "T", "I", "C", " ", "P", "A", "Y", "M", "E", "N", "T">>, <<"D", "E", "B", "I", "T", " ", "C", "A", "R", "D", " ", "P", "U", "R", "C", "H", "A", "S", "E">>, <<"R", "E", "C", "U", "R", "R", "I", "N", "G", " ", "P", "A", "Y", "M", "E", "N", "T">>,
      <<"O", "N", "L", "I", "N", "E", " ", "P", "U", "R", "C", "H", "A", "S", "E">>, <<"O", "N", "L", "I", "N", "E", " ", "P", "A", "Y", "M", "E", "N", "T">>, <<"B", "I", "L", "L", " ", "P", "A", "Y", "M", "E", "N", "T">>, <<"A", "C", "H", " ", "P", "A", "Y", "M", "E", "N", "T">>,
      <<"A", "C", "H", " ", "C", "R", "E", "D", "I", "T">>, <<"A", "C", "H", " ", "D", "E", "B", "I", "T">>, <<"P", "O", "S", " ", "D", "E", "B", "I", "T">>, <<"M", "A", "S", "T", "E", "R", "C", "A", "R", "D">>, <<"V", "I", "S", "A">> >>

\* The order list.sort() and sorted() put items with these keys in: the
\* indices by ascending key, equal keys in the order they had
StableOrder(keys) ==
   Then(keys @@ << >>, LAMBDA ks :
      [p \in 1..Len(ks) |->
         CHOOSE i \in 1..Len(ks) :
            Cardinality({j \in 1..Len(ks) :
                            ks[j] < ks[i] \/ (ks[j] = ks[i] /\ j < i)}) = p - 1] @@ << >>)

\* sorted(..., key=len, reverse=True): longest first, equal lengths in the
\* order they were written
STRIP_PREFIXES ==
   LET order == StableOrder([i \in 1..Len(StripPrefixesWritten) |-> -Len(StripPrefixesWritten[i])])
   IN [p \in 1..Len(StripPrefixesWritten) |-> StripPrefixesWritten[order[p]]] @@ << >>

StartsWith(text, prefix) ==
   Len(text) >= Len(prefix) /\ SubSeq(text, 1, Len(prefix)) = prefix

\* the prefix loop from prefix k on: the first prefix the text starts with
\* is cut off, the rest is stripped, and the loop ends
RECURSIVE StripFirstPrefix(_, _)
StripFirstPrefix(text, k) ==
   IF k > Len(STRIP_PREFIXES) THEN text
   ELSE IF StartsWith(text, STRIP_PREFIXES[k])
        THEN Strip(SubSeq(text, Len(STRIP_PREFIXES[k]) + 1, Len(text)))
        ELSE StripFirstPrefix(text, k + 1)

\* the text without the blanks at its end
RECURSIVE RStrip(_)
RStrip(text) ==
   IF text # << >> /\ text[Len(text)] = " " THEN RStrip(SubSeq(text, 1, Len(text) - 1)) ELSE text

\* the length of the run of digits the text ends with
TrailingDigits(text) ==
   CHOOSE n \in 0..Len(text) :
      /\ \A j \in (Len(text) - n + 1)..Len(text) : IsDigit(text[j])
      /\ (n = Len(text) \/ ~IsDigit(text[Len(text) - n]))

RefDigits == 6

\* _TRAILING_REF.sub("", text): the leftmost match of \s*\d{6,}$ is the
\* run of digits at the end, when it has six or more, with the blanks before
SubTrailingRef(text) ==
   LET n == TrailingDigits(text)
   IN IF n >= RefDigits THEN RStrip(SubSeq(text, 1, Len(text) - n)) ELSE text

\* _TRAILING_DATE.sub("", text): \s*\d{2}/\d{2}$
SubTrailingDate(text) ==
   LET n == Len(text)
   IN IF /\ n >= 5
         /\ IsDigit(text[n - 4]) /\ IsDigit(text[n - 3]) /\ text[n - 2] = "/"
         /\ IsDigit(text[n - 1]) /\ IsDigit(text[n])
      THEN RStrip(SubSeq(text, 1, n - 5)) ELSE text

\* strip and upper-case, cut the first prefix, cut a trailing reference
\* number, cut a trailing date, collapse the blanks
normalize_vendor(description) ==
   Then(Upper(Strip(description)), LAMBDA text :
   Then(StripFirstPrefix(text, 1), LAMBDA stripped :
   Then(SubTrailingRef(stripped), LAMBDA unreferenced :
   Then(SubTrailingDate(unreferenced), LAMBDA undated :
      Join(Split(undated))))))

\* Raw descriptions: a lead, a vendor name and a tail
VendorLeads ==
   << <<>>, <<"V", "I", "S", "A", " ">>, <<"A", "C", "H", " ", "D", "E", "B", "I", "T", " ">>, <<"V", "i", "s", "a", " ", "A", "C", "H", " ", "D", "e", "b", "i", "t", " ">>, <<" ", "R", "e", "c", "u", "r", "r", "i", "n", "g", " ", "P", "a", "y", "m", "e", "n", "t", " ", " ">> >>
VendorNames == << <<"N", "E", "T", "F", "L", "I", "X">>, <<"S", "p", "o", "t", "i", "f", "y", " ", " ", "U", "S", "A">>, <<>> >>
VendorTails ==
   << <<>>, <<" ", "1", "2", "3", "4", "5", "6">>, <<" ", "0", "1", "/", "1", "5">>, <<" ", "0", "1", "/", "1", "5", " ", "1", "2", "3", "4", "5", "6">>, <<" ", "1", "2", "3", "4", "5", "6", " ", "0", "1", "/", "1", "5">>, <<" ", "1", "2", "3", "4", "5", " ">> >>

VendorInputs ==
   {VendorLeads[a] \o VendorNames[b] \o VendorTails[c] :
       a \in 1..Len(VendorLeads), b \in 1..Len(VendorNames), c \in 1..Len(VendorTails)}

----------------------------------------------------------------------------
(* Recurring charge detector: SubscriptionService                          *)

\* date.toordinal() of date.fromisoformat(text[:10])
RECURSIVE DaysBeforeMonth(_, _)
DaysBeforeMonth(y, m) == IF m = 1 THEN 0 ELSE DaysBeforeMonth(y, m - 1) + LastDay(y, m - 1)

ToOrdinal(text) ==
   LET p == ParseIsoDate(text)
       y == p[1] - 1
   IN 365 * y + (y \div 4) - (y \div 100) + (y \div 400) + DaysBeforeMonth(p[1], p[2]) + p[3]

\* date(y, m, d).toordinal()
YmdOrdinal(y, m, d) ==
   365 * (y - 1) + ((y - 1) \div 4) - ((y - 1) \div 100) + ((y - 1) \div 400)
      + DaysBeforeMonth(y, m) + d

\* The years the dates of the model lie in
DateYears == 2024..2027

\* str(n).zfill(width), as the %04d and %02d of isoformat
ZeroPad(n, width) ==
   [i \in 1..(width - Len(NatToStr(n))) |-> "0"] \o NatToStr(n)

\* date.fromordinal(n).isoformat(): YYYY-MM-DD
FromOrdinal(n) ==
   LET y == CHOOSE yy \in DateYears : YmdOrdinal(yy, 1, 1) <= n /\ n < YmdOrdinal(yy + 1, 1, 1)
       m == CHOOSE mm \in 1..12 :
               YmdOrdinal(y, mm, 1) <= n /\ n < YmdOrdinal(y, mm, 1) + LastDay(y, mm)
       d == n - YmdOrdinal(y, m, 1) + 1
   IN ZeroPad(y, 4) \o <<"-">> \o ZeroPad(m, 2) \o <<"-">> \o ZeroPad(d, 2)

RECURSIVE SumSeq(_)
SumSeq(s) == IF s = << >> THEN 0 ELSE s[1] + SumSeq(Tail(s))

\* _FREQ_BUCKETS, in the order of the dict
FREQ_BUCKETS ==
   << [freq |-> "weekly", lo |-> 5, hi |-> 9], [freq |-> "monthly", lo |-> 25, hi |-> 35],
      [freq |-> "quarterly", lo |-> 80, hi |-> 100], [freq |-> "yearly", lo |-> 350, hi |-> 380] >>

\* variant: every frequency is expected again after a week
FREQ_INTERVALS_AllWeek ==
   [freq \in {"weekly", "monthly", "quarterly", "yearly"} |-> 7]

\* _FREQ_INTERVALS: the expected interval in days for each frequency
FREQ_INTERVALS ==
   [freq \in {"weekly", "monthly", "quarterly", "yearly"} |->
      CASE freq = "weekly" -> 7 [] freq = "monthly" -> 30
        [] freq = "quarterly" -> 90 [] freq = "yearly" -> 365]

NoFrequency == "none"

\* sorted(intervals)[len(intervals) // 2]
Median(intervals) ==
   CHOOSE v \in {intervals[i] : i \in 1..Len(intervals)} :
      /\ Cardinality({i \in 1..Len(intervals) : intervals[i] < v}) <= Len(intervals) \div 2
      /\ Cardinality({i \in 1..Len(intervals) : intervals[i] <= v}) > Len(intervals) \div 2

\* _classify_frequency: the first bucket that holds the median interval
classify_frequency(intervals) ==
   IF intervals = << >> THEN NoFrequency
   ELSE LET median == Median(intervals)
            fits == {b \in 1..Len(FREQ_BUCKETS) :
                        FREQ_BUCKETS[b].lo <= median /\ median <= FREQ_BUCKETS[b].hi}
        IN IF fits = {} THEN NoFrequency
           ELSE FREQ_BUCKETS[CHOOSE b \in fits : \A c \in fits : b <= c].freq

Bucket(frequency) ==
   FREQ_BUCKETS[CHOOSE b \in 1..Len(FREQ_BUCKETS) : FREQ_BUCKETS[b].freq = frequency]

\* variant: every occurrence counts 10, without the cap of 6
score_confidence_CountTen(count, intervals, amounts, frequency) ==
   count * 10 + 70

\* _score_confidence.  The float expressions are computed exactly:
\* max_spread = spread / total with spread = max |n * a - total|, so
\* max_spread <= 0.10 is 10 * spread <= total, and
\* 30 * (1 - (max_spread - 0.10) / 0.20) is (45 * total - 150 * spread) / total.
score_confidence(count, intervals, amounts, frequency) ==
   LET occurrence_score == Min(count, 6) * 5
       in_range == Cardinality({i \in 1..Len(intervals) :
                      Bucket(frequency).lo <= intervals[i] /\ intervals[i] <= Bucket(frequency).hi})
       interval_score == IF intervals = << >> THEN 0 ELSE (in_range * 40) \div Len(intervals)
       total == SumSeq(amounts)
       spreads == {Abs(Len(amounts) * amounts[i] - total) : i \in 1..Len(amounts)}
       spread == CHOOSE m \in spreads : \A x \in spreads : x <= m
       amount_score == IF amounts = << >> \/ total <= 0 THEN 0
                       ELSE IF 10 * spread <= total THEN 30
                       ELSE Max(0, (45 * total - 150 * spread) \div total)
   IN occurrence_score + interval_score + amount_score

\* date.today(), the default of months, and the days a month of the window
\* counts for
Today == <<"2", "0", "2", "6", "-", "0", "4", "-", "1", "0">>
DetectionMonths == 6
WindowMonthDays == 30
MinOccurrences == 3
MinConfidence == 40

\* transaction_date >= cutoff, cutoff the ISO text of today - months * 30
\* days; for texts of the form YYYY-MM-DD the order of the texts is the
\* order of the days
InWindow(transaction_date) ==
   ToOrdinal(transaction_date) >= ToOrdinal(Today) - DetectionMonths * WindowMonthDays

\* The rows both queries return, account debits (negative) before card
\* charges (positive), each with its vendor; rows without a vendor are
\* passed over
VendorRows(accts, cards) ==
   Then(SelectSeq(accts, LAMBDA r : r.amount_cents < 0 /\ InWindow(r.transaction_date))
           \o SelectSeq(cards, LAMBDA r : r.amount_cents > 0 /\ InWindow(r.transaction_date)),
        LAMBDA rows :
      SelectSeq([i \in 1..Len(rows) |->
                   [vendor |-> normalize_vendor(rows[i].description),
                    amount_cents |-> Abs(rows[i].amount_cents),
                    date |-> rows[i].transaction_date]],
                LAMBDA t : t.vendor # << >>))

\* the keys of vendor_txns, in the order they were first inserted
VendorKeys(seen) ==
   Then(SelectSeq([i \in 1..Len(seen) |-> i],
                  LAMBDA i : \A j \in 1..(i - 1) : seen[j].vendor # seen[i].vendor),
        LAMBDA first : [n \in 1..Len(first) |-> seen[first[n]].vendor] @@ << >>)

\* SELECT match_pattern FROM subscriptions WHERE is_active = 1, without the
\* empty ones
get_all_match_patterns(subs) ==
   {subs[i].match_pattern : i \in {j \in 1..Len(subs) : subs[j].is_active}} \ {<< >>}

\* variant: no bill pattern is excluded
get_bill_patterns_None(bs) == {}

\* _get_bill_patterns: the upper-cased patterns of the active bills
get_bill_patterns(bs) ==
   UNION {{Upper(bs[k].match_patterns[n]) : n \in 1..Len(bs[k].match_patterns)} :
             k \in {j \in 1..Len(bs) : bs[j].is_active}}

NoCandidate == [match_pattern |-> << >>]

\* variant: two charges are enough
TooFewOccurrences_Two(txns) == Len(txns) < MinOccurrences - 1

\* "if len(txns) < 3: continue"
TooFewOccurrences(txns) == Len(txns) < MinOccurrences

\* The body of the loop over vendor_txns for one vendor: the Subscription it
\* appends to results, or NoCandidate where it continues
Candidate(vendor, seen, excluded) ==
   Then(SelectSeq(seen, LAMBDA t : t.vendor = vendor), LAMBDA group :
   Then(StableOrder([i \in 1..Len(group) |-> ToOrdinal(group[i].date)]), LAMBDA order :
   Then([p \in 1..Len(group) |-> group[order[p]]] @@ << >>, LAMBDA txns :
   Then([i \in 1..(Len(txns) - 1) |->
           ToOrdinal(txns[i + 1].date) - ToOrdinal(txns[i].date)] @@ << >>, LAMBDA intervals :
   Then(classify_frequency(intervals), LAMBDA frequency :
   Then([i \in 1..Len(txns) |-> txns[i].amount_cents] @@ << >>, LAMBDA amounts :
      IF vendor \in excluded THEN NoCandidate
      ELSE IF TooFewOccurrences(txns) THEN NoCandidate
      ELSE IF intervals = << >> \/ frequency = NoFrequency THEN NoCandidate
      ELSE Then(score_confidence(Len(txns), intervals, amounts, frequency), LAMBDA confidence :
              IF confidence < MinConfidence THEN NoCandidate
              ELSE [match_pattern |-> vendor,
                    amount_cents |-> SumSeq(amounts) \div Len(amounts),
                    frequency |-> frequency, status |-> "active",
                    next_charge_date |->
                       FromOrdinal(ToOrdinal(txns[Len(txns)].date) + FREQ_INTERVALS[frequency]),
                    last_charge_date |-> FromOrdinal(ToOrdinal(txns[Len(txns)].date)),
                    confidence |-> confidence,
                    source |-> "detected", is_active |-> TRUE]) ))))))

\* detect_subscriptions: the candidates, highest confidence first
DetectedFrom(accts, cards, subs, bs) ==
   Then(VendorRows(accts, cards), LAMBDA seen :
   Then(VendorKeys(seen), LAMBDA keys :
   Then(get_all_match_patterns(subs) \cup get_bill_patterns(bs), LAMBDA excluded :
   Then(SelectSeq([n \in 1..Len(keys) |-> Candidate(keys[n], seen, excluded)],
                  LAMBDA c : c # NoCandidate), LAMBDA results :
   Then(StableOrder([n \in 1..Len(results) |-> -results[n].confidence]), LAMBDA order :
      [p \in 1..Len(results) |-> results[order[p]]] @@ << >>)))))

\* repo.insert(sub): the row, with the id new_id() gave it
SubscriptionRow(id, sub) ==
   [id |-> id, match_pattern |-> sub.match_pattern, status |-> sub.status,
    source |-> sub.source, is_active |-> sub.is_active]

\* variant: the detection stores the candidates it returns
detect_subscriptions_Saving ==
   \E candidates \in {DetectedFrom(acct_txns, card_txns, subscriptions, bills)} :
      /\ result' = [op |-> "detect_subscriptions", candidates |-> candidates]
      /\ subscriptions' = subscriptions
            \o [n \in 1..Len(candidates) |-> SubscriptionRow(next_id + n, candidates[n])]
      /\ next_id' = next_id + Len(candidates)
      /\ UNCHANGED <<acct_txns, card_txns, bills, amount_tolerance_cents,
                     date_window_days, last_capture, fn_in, fn_out, runs>>

\* the detection operation: nothing is written, the candidates are returned
detect_subscriptions ==
   \E candidates \in {DetectedFrom(acct_txns, card_txns, subscriptions, bills)} :
      /\ result' = [op |-> "detect_subscriptions", candidates |-> candidates]
      /\ UNCHANGED <<acct_txns, card_txns, bills, next_id, amount_tolerance_cents,
                     date_window_days, last_capture, fn_in, fn_out, subscriptions, runs>>

\* variant: the look-up finds nothing
find_by_match_pattern_Never(subs, pattern) == FALSE

\* SELECT * FROM subscriptions WHERE match_pattern = ? AND is_active = 1
find_by_match_pattern(subs, pattern) ==
   \E i \in 1..Len(subs) : subs[i].match_pattern = pattern /\ subs[i].is_active

\* one turn of the loop of confirm_detected; st is [subs, count]
ConfirmStep(sub, st) ==
   IF find_by_match_pattern(st.subs, sub.match_pattern) THEN st
   ELSE [subs |-> Append(st.subs, SubscriptionRow(next_id + st.count + 1, sub)),
         count |-> st.count + 1]

RECURSIVE ConfirmLoop(_, _, _)
ConfirmLoop(detected, k, st) ==
   IF k > Len(detected) THEN st
   ELSE Then(ConfirmStep(detected[k], st), LAMBDA next : ConfirmLoop(detected, k + 1, next))

\* The number of subscription rows the model lets the table grow to
MaxSubs == 2

confirm_detected(detected) ==
   \E st \in {ConfirmLoop(detected, 1, [subs |-> subscriptions, count |-> 0])} :
      /\ Len(st.subs) <= MaxSubs
      /\ subscriptions' = st.subs
      /\ next_id' = next_id + st.count
      /\ result' = [op |-> "confirm_detected", candidates |-> detected, count |-> st.count]
      /\ UNCHANGED <<acct_txns, card_txns, bills, amount_tolerance_cents,
                     date_window_days, last_capture, fn_in, fn_out, runs>>

\* The caller confirms what the last detection returned: all of it, or one
\* candidate of it; the same list can be confirmed again.
ConfirmDetected ==
   /\ result.op \in {"detect_subscriptions", "confirm_detected"}
   /\ \E detected \in {result.candidates}
                      \cup {<<result.candidates[n]>> : n \in 1..Len(result.candidates)} :
         confirm_detected(detected)

Frequencies == {"weekly", "monthly", "quarterly", "yearly"}

add_subscription(name, amount_cents, frequency) ==
   LET valid == name # << >> /\ amount_cents >= 0 /\ frequency \in Frequencies
       sub == [match_pattern |-> Upper(name), status |-> "active", source |-> "manual",
               is_active |-> TRUE]
   IN /\ valid => Len(subscriptions) < MaxSubs
      /\ subscriptions' = IF valid THEN Append(subscriptions, SubscriptionRow(next_id + 1, sub))
                          ELSE subscriptions
      /\ next_id' = IF valid THEN next_id + 1 ELSE next_id
      /\ result' = [op |-> "add_subscription",
                    raised |-> IF valid THEN "none" ELSE "ValidationError"]
      /\ UNCHANGED <<acct_txns, card_txns, bills, amount_tolerance_cents,
                     date_window_days, last_capture, fn_in, fn_out, runs>>

\* what the user types: names, amounts and frequencies
ManualNames == {<<"N", "e", "t", "f", "l", "i", "x", ".", "c", "o", "m">>, <<>>}
ManualAmounts == {1599, -100}
ManualFrequencies == {"monthly", "biweekly"}

AddSubscription ==
   \E name \in ManualNames, amount_cents \in ManualAmounts, frequency \in ManualFrequencies :
      add_subscription(name, amount_cents, frequency)

\* repo.update(sub_id, status="cancelled") and the repo.get that follows it
cancel_subscription(sub_id) ==
   /\ subscriptions' = [i \in 1..Len(subscriptions) |->
                          IF subscriptions[i].id = sub_id
                          THEN [subscriptions[i] EXCEPT !.status = "cancelled"]
                          ELSE subscriptions[i]]
   /\ result' = [op |-> "cancel_subscription",
                 raised |-> IF HasId(subscriptions, sub_id) THEN "none" ELSE "NotFoundError"]
   /\ UNCHANGED <<acct_txns, card_txns, bills, next_id, amount_tolerance_cents,
                  date_window_days, last_capture, fn_in, fn_out, runs>>

CancelSubscription ==
   \E sub_id \in {subscriptions[i].id : i \in 1..Len(subscriptions)} \cup {MissingTxnId} :
      cancel_subscription(sub_id)

\* The transactions the detector is run on: charges of these vendors, as
\* [series, store, description, amount_cents, date]
Charge(series, store, description, amount_cents, date) ==
   [series |-> series, store |-> store, description |-> description,
    amount_cents |-> amount_cents, date |-> date]

Charges ==
   << Charge(1, "account", <<"A", "C", "H", " ", "D", "E", "B", "I", "T", " ", "N", "E", "T", "F", "L", "I", "X", ".", "C", "O", "M">>, -1599, <<"2", "0", "2", "6", "-", "0", "1", "-", "1", "0">>),
      Charge(1, "account", <<"A", "C", "H", " ", "D", "E", "B", "I", "T", " ", "N", "E", "T", "F", "L", "I", "X", ".", "C", "O", "M">>, -1599, <<"2", "0", "2", "6", "-", "0", "2", "-", "0", "9">>),
      Charge(1, "account", <<"A", "C", "H", " ", "D", "E", "B", "I", "T", " ", "N", "E", "T", "F", "L", "I", "X", ".", "C", "O", "M">>, -1599, <<"2", "0", "2", "6", "-", "0", "3", "-", "1", "1">>),
      Charge(2, "card", <<"S", "p", "o", "t", "i", "f", "y", " ", "P", "r", "e", "m", "i", "u", "m", " ", "0", "1", "/", "1", "5">>, 999, <<"2", "0", "2", "6", "-", "0", "1", "-", "1", "5">>),
      Charge(2, "card", <<"S", "p", "o", "t", "i", "f", "y", " ", "P", "r", "e", "m", "i", "u", "m", " ", "0", "2", "/", "1", "4">>, 999, <<"2", "0", "2", "6", "-", "0", "2", "-", "1", "4">>),
      Charge(2, "card", <<"S", "p", "o", "t", "i", "f", "y", " ", "P", "r", "e", "m", "i", "u", "m", " ", "0", "3", "/", "1", "6">>, 1099, <<"2", "0", "2", "6", "-", "0", "3", "-", "1", "6">>),
      Charge(3, "account", <<"O", "N", "E", "T", "I", "M", "E", " ", "V", "E", "N", "D", "O", "R">>, -5000, <<"2", "0", "2", "6", "-", "0", "2", "-", "0", "9">>),
      Charge(3, "account", <<"O", "N", "E", "T", "I", "M", "E", " ", "V", "E", "N", "D", "O", "R">>, -5000, <<"2", "0", "2", "6", "-", "0", "3", "-", "1", "1">>),
      Charge(4, "account", <<"G", "Y", "M", " ", "C", "L", "U", "B">>, -3000, <<"2", "0", "2", "6", "-", "0", "2", "-", "0", "1">>),
      Charge(4, "account", <<"G", "Y", "M", " ", "C", "L", "U", "B">>, -3000, <<"2", "0", "2", "6", "-", "0", "3", "-", "0", "3">>),
      Charge(4, "account", <<"G", "Y", "M", " ", "C", "L", "U", "B">>, 3000, <<"2", "0", "2", "6", "-", "0", "4", "-", "0", "2">>),
      Charge(5, "account", <<"C", "L", "O", "U", "D", " ", "B", "A", "C", "K", "U", "P">>, -500, <<"2", "0", "2", "5", "-", "0", "9", "-", "1", "2">>),
      Charge(5, "account", <<"C", "L", "O", "U", "D", " ", "B", "A", "C", "K", "U", "P">>, -500, <<"2", "0", "2", "6", "-", "0", "2", "-", "1", "1">>),
      Charge(5, "account", <<"C", "L", "O", "U", "D", " ", "B", "A", "C", "K", "U", "P">>, -500, <<"2", "0", "2", "6", "-", "0", "3", "-", "1", "3">>),
      Charge(6, "account", <<"J", "C", "P", "L">>, -14200, <<"2", "0", "2", "6", "-", "0", "1", "-", "1", "5">>),
      Charge(6, "account", <<"J", "C", "P", "L">>, -14200, <<"2", "0", "2", "6", "-", "0", "2", "-", "1", "5">>),
      Charge(6, "account", <<"J", "C", "P", "L">>, -14800, <<"2", "0", "2", "6", "-", "0", "3", "-", "1", "5">>),
      Charge(7, "account", <<"V", "I", "S", "A", " ", "H", "U", "L", "U", " ", "L", "L", "C">>, -1799, <<"2", "0", "2", "6", "-", "0", "3", "-", "2", "0">>),
      Charge(7, "account", <<"H", "U", "L", "U", " ", "L", "L", "C", " ", "2", "0", "2", "6", "0", "3", "0", "6">>, -1799, <<"2", "0", "2", "6", "-", "0", "3", "-", "0", "6">>),
      Charge(7, "card", <<"H", "u", "l", "u", " ", " ", "L", "L", "C">>, 1799, <<"2", "0", "2", "6", "-", "0", "3", "-", "1", "3">>) >>

ChargeSeries == {Charges[i].series : i \in 1..Len(Charges)}

\* The number of series a database holds at most
MaxSeries == 2

\* the rows of the picked series in one store, with ids n + 1, n + 2, ...
ChargeRows(picked, store, n) ==
   LET mine == SelectSeq(Charges, LAMBDA c : c.series \in picked /\ c.store = store)
   IN [i \in 1..Len(mine) |->
         IF store = "account"
         THEN AcctRow(n + i, "acct-1", mine[i].description, mine[i].amount_cents, mine[i].date,
                      NoText, NoId)
         ELSE CardRow(n + i, "card-1", mine[i].description, mine[i].amount_cents, mine[i].date,
                      NoText, NoId)]

\* the bill tables the detector is run beside
DetectorBills == { << >>, <<BillJcpl>>, <<BillJcplOff, BillGas>> }

\* A vendor's charges as the tests seed them: the last one today, the ones
\* before it at these distances in days, one text as description
GapDays == {7, 9, 10, 30, 90}

\* The number of charges a seeded vendor has at most
MaxCharges == 5

GapSeqs == UNION {[1..k -> GapDays] : k \in 2..(MaxCharges - 1)}

\* the store the charges are in, the sign they carry, and how their amounts
\* differ
ChargeProfiles ==
   { [store |-> "account", sign |-> -1, amounts |-> "same"],
     [store |-> "account", sign |-> -1, amounts |-> "near"],
     [store |-> "account", sign |-> -1, amounts |-> "far"],
     [store |-> "account", sign |-> 1, amounts |-> "same"],
     [store |-> "card", sign |-> 1, amounts |-> "same"],
     [store |-> "card", sign |-> -1, amounts |-> "same"] }

SeededVendor == <<"N", "E", "T", "F", "L", "I", "X", ".", "C", "O", "M">>

\* abs(amount_cents) of charge i of n, counted from the oldest
SeededAmount(amounts, i, n) ==
   IF amounts = "same" THEN 1599
   ELSE IF i < n THEN 1500
   ELSE IF amounts = "near" THEN 2000 ELSE 9000

\* today - timedelta(days=...): the day of charge i, counted from the oldest,
\* where gaps[k] lies between charge k and charge k + 1
SeededDay(gaps, i) ==
   ToOrdinal(Today) - SumSeq(SubSeq(gaps, i, Len(gaps)))

\* the rows of the seeded vendor, the newest first
SeededRows(gaps, profile) ==
   [j \in 1..(Len(gaps) + 1) |->
      Then(Len(gaps) + 2 - j, LAMBDA i :
         IF profile.store = "account"
         THEN AcctRow(j, "acct-1", SeededVendor,
                      profile.sign * SeededAmount(profile.amounts, i, Len(gaps) + 1),
                      FromOrdinal(SeededDay(gaps, i)), NoText, NoId)
         ELSE CardRow(j, "card-1", SeededVendor,
                      profile.sign * SeededAmount(profile.amounts, i, Len(gaps) + 1),
                      FromOrdinal(SeededDay(gaps, i)), NoText, NoId))] @@ << >>

----------------------------------------------------------------------------
(* Batch runs that overlap: two processes working on one database file     *)

\* The runs.  Each is a process of its own with its own connection; a
\* statement of one run takes effect between two statements of the other.
RunIds == {1, 2}

IdleRun == [pc |-> "idle"]

\* subscriptions_detect up to the first statement of confirm_detected: the
\* run detects, and confirms everything it detected
ConfirmBegin(r) ==
   /\ runs[r].pc = "idle"
   /\ \E detected \in {DetectedFrom(acct_txns, card_txns, subscriptions, bills)} :
         runs' = [runs EXCEPT ![r] = [pc |-> "check", detected |-> detected, k |-> 1, count |-> 0]]
   /\ UNCHANGED <<acct_txns, card_txns, bills, next_id, amount_tolerance_cents,
                  date_window_days, result, last_capture, fn_in, fn_out, subscriptions>>

\* "existing = self.repo.find_by_match_pattern(sub.match_pattern)" for the
\* candidate the loop is at, or the return when the list is through
ConfirmCheck(r) ==
   /\ runs[r].pc = "check"
   /\ IF runs[r].k > Len(runs[r].detected)
      THEN /\ runs' = [runs EXCEPT ![r].pc = "done"]
           /\ result' = [op |-> "confirm_detected", candidates |-> runs[r].detected,
                         count |-> runs[r].count]
      ELSE /\ runs' = IF find_by_match_pattern(subscriptions,
                                               runs[r].detected[runs[r].k].match_pattern)
                      THEN [runs EXCEPT ![r].k = @ + 1]
                      ELSE [runs EXCEPT ![r].pc = "insert"]
           /\ UNCHANGED result
   /\ UNCHANGED <<acct_txns, card_txns, bills, next_id, amount_tolerance_cents,
                  date_window_days, last_capture, fn_in, fn_out, subscriptions>>

\* "self.repo.insert(sub)": the INSERT and its commit, and "count += 1"
ConfirmInsert(r) ==
   /\ runs[r].pc = "insert"
   /\ subscriptions' = Append(subscriptions,
                              SubscriptionRow(next_id + 1, runs[r].detected[runs[r].k]))
   /\ next_id' = next_id + 1
   /\ runs' = [runs EXCEPT ![r].pc = "check", ![r].k = @ + 1, ![r].count = @ + 1]
   /\ UNCHANGED <<acct_txns, card_txns, bills, amount_tolerance_cents,
                  date_window_days, result, last_capture, fn_in, fn_out>>

\* link_transactions up to the loop: the two SELECTs, the active bills and
\* the unmatched rows of the filter, as the database holds them now
LinkBegin(r, account_id) ==
   /\ runs[r].pc = "idle"
   /\ runs' = [runs EXCEPT ![r] =
                  [pc |-> "scanned", account_id |-> account_id,
                   bills |-> ActiveBills(bills),
                   unmatched |-> SelectSeq(acct_txns, LAMBDA row : Scanned(row, account_id))]]
   /\ UNCHANGED <<acct_txns, card_txns, bills, next_id, amount_tolerance_cents,
                  date_window_days, result, last_capture, fn_in, fn_out, subscriptions>>

\* The loop of link_transactions over the rows it read, and the commit: one
\* write transaction, which no write of another connection falls into.  The
\* UPDATE names the row by its id alone.
LinkWrite(r) ==
   /\ runs[r].pc = "scanned"
   /\ \E matches \in {MatchesFrom(runs[r].unmatched, 1, runs[r].account_id, runs[r].bills,
                                  amount_tolerance_cents, date_window_days)} :
         /\ acct_txns' = ApplyMatches(acct_txns, matches, 1)
         /\ runs' = [runs EXCEPT ![r] = [pc |-> "done", account_id |-> runs[r].account_id,
                                         matches |-> matches]]
         /\ result' = [op |-> "link_transactions", account_id |-> runs[r].account_id,
                       total_unmatched |-> Len(runs[r].unmatched),
                       matched |-> Len(matches), matches |-> matches, repeated |-> FALSE]
   /\ UNCHANGED <<card_txns, bills, next_id, amount_tolerance_cents, date_window_days,
                  last_capture, fn_in, fn_out, subscriptions>>

\* Descriptions a confirmation learns from: a stop word at the end, in the
\* middle and at the front, blanks in a row, and stop words only
LearnDescriptions ==
   { <<"J", "C", "P", "L", " ", "P", "A", "Y", "M", "E", "N", "T">>, <<"J", "C", "P", "L", " ", "P", "A", "Y", "M", "E", "N", "T", " ", "E", "L", "E", "C", "T", "R", "I", "C">>, <<"A", "C", "H", " ", "D", "e", "b", "i", "t", " ", "A", "c", "m", "e", " ", "W", "a", "t", "e", "r">>,
     <<"A", "c", "m", "e", " ", " ", "W", "a", "t", "e", "r", " ", "C", "o">>, <<"A", "C", "H", " ", "P", "A", "Y", "M", "E", "N", "T">> }

\* two account transactions that carry the description, a month apart
LearnRows(description) ==
   << AcctRow(1, "acct-1", description, -4100, <<"2", "0", "2", "6", "-", "0", "1", "-", "2", "0">>, NoText, NoId),
      AcctRow(2, "acct-1", description, -4350, <<"2", "0", "2", "6", "-", "0", "2", "-", "2", "0">>, NoText, NoId) >>

----------------------------------------------------------------------------
(* Specifications                                                          *)

NoCapture == [data |-> << >>, repeated |-> FALSE]

\* The import channels working on one database that starts without
\* transactions.
Init ==
   /\ acct_txns = << >>
   /\ card_txns = << >>
   /\ bills \in BillConfigs
   /\ next_id = 0
   /\ amount_tolerance_cents = 500
   /\ date_window_days = 7
   /\ result = [op |-> "none"]
   /\ last_capture = NoCapture
   /\ fn_in = << >>
   /\ fn_out = << >>
   /\ subscriptions = << >>
   /\ runs = << >>

Next ==
   \/ CaptureImport
   \/ CsvImport
   \/ PdfImport
   \/ ManualEntry
   \/ PlaidSync

Spec == Init /\ [][Next]_vars

\* The fingerprint generator applied to two inputs.
InitFp ==
   /\ acct_txns = << >>
   /\ card_txns = << >>
   /\ bills = << >>
   /\ next_id = 0
   /\ amount_tolerance_cents = 500
   /\ date_window_days = 7
   /\ result = [op |-> "none"]
   /\ last_capture = NoCapture
   /\ fn_in \in FingerprintInputs \X FingerprintInputs
   /\ fn_out = << >>
   /\ subscriptions = << >>
   /\ runs = << >>

ComputeFingerprints ==
   /\ fn_out = << >>
   /\ fn_out' = << Fingerprint(fn_in[1][1], fn_in[1][2], fn_in[1][3]),
                   Fingerprint(fn_in[2][1], fn_in[2][2], fn_in[2][3]) >>
   /\ UNCHANGED <<acct_txns, card_txns, bills, next_id, amount_tolerance_cents,
                  date_window_days, result, last_capture, fn_in, subscriptions, runs>>

NextFp == ComputeFingerprints

SpecFp == InitFp /\ [][NextFp]_vars

\* The statement linker and the manual confirmation working on a database
\* that holds bills and manually entered transactions.
InitLink ==
   /\ \E picked \in SUBSET (1..Len(LinkEvents)) :
         /\ Cardinality(picked) <= MaxLinkTxns
         /\ acct_txns = LinkRows(picked, 1, 0)
         /\ card_txns = <<CardRow(Cardinality(picked) + 1, "card-1", DescJcpl, -14200, Date15,
                                   NoText, NoId)>>
         /\ next_id = Cardinality(picked) + 1
   /\ \E setup \in LinkSetups :
         /\ bills = setup.bills
         /\ amount_tolerance_cents = setup.amount_tolerance_cents
         /\ date_window_days = setup.date_window_days
   /\ result = [op |-> "none"]
   /\ last_capture = NoCapture
   /\ fn_in = << >>
   /\ fn_out = << >>
   /\ subscriptions = << >>
   /\ runs = << >>

NextLink ==
   \/ LinkTransactions
   \/ ConfirmMatch

SpecLink == InitLink /\ [][NextLink]_vars

\* The vendor normalizer applied to a raw description, and again to what it
\* returned, up to VendorPasses times; fn_out holds the returned texts.
VendorPasses == 2

InitVendor ==
   /\ acct_txns = << >>
   /\ card_txns = << >>
   /\ bills = << >>
   /\ next_id = 0
   /\ amount_tolerance_cents = 500
   /\ date_window_days = 7
   /\ result = [op |-> "none"]
   /\ last_capture = NoCapture
   /\ fn_in \in VendorInputs
   /\ fn_out = << >>
   /\ subscriptions = << >>
   /\ runs = << >>

NormalizeVendor ==
   /\ Len(fn_out) < VendorPasses
   /\ fn_out' = Append(fn_out, normalize_vendor(IF fn_out = << >> THEN fn_in
                                                 ELSE fn_out[Len(fn_out)]))
   /\ UNCHANGED <<acct_txns, card_txns, bills, next_id, amount_tolerance_cents,
                  date_window_days, result, last_capture, fn_in, subscriptions, runs>>

NextVendor == NormalizeVendor

SpecVendor == InitVendor /\ [][NextVendor]_vars

\* The recurring charge detector and the subscription operations working on
\* a database that holds the charges of up to MaxSeries vendors.
InitSub ==
   /\ \E picked \in SUBSET ChargeSeries :
         /\ Cardinality(picked) <= MaxSeries
         /\ acct_txns = ChargeRows(picked, "account", 0)
         /\ card_txns = ChargeRows(picked, "card", Len(ChargeRows(picked, "account", 0)))
         /\ next_id = Len(ChargeRows(picked, "account", 0)) + Len(ChargeRows(picked, "card", 0))
   /\ bills \in DetectorBills
   /\ amount_tolerance_cents = 500
   /\ date_window_days = 7
   /\ result = [op |-> "none"]
   /\ last_capture = NoCapture
   /\ fn_in = << >>
   /\ fn_out = << >>
   /\ subscriptions = << >>
   /\ runs = << >>

NextSub ==
   \/ detect_subscriptions
   \/ ConfirmDetected
   \/ AddSubscription
   \/ CancelSubscription

SpecSub == InitSub /\ [][NextSub]_vars

\* The recurring charge detector on a database that holds the charges of one
\* seeded vendor, and the confirmation of what it returned.
InitDet ==
   /\ \E gaps \in GapSeqs, profile \in ChargeProfiles :
         /\ acct_txns = IF profile.store = "account" THEN SeededRows(gaps, profile) ELSE << >>
         /\ card_txns = IF profile.store = "card" THEN SeededRows(gaps, profile) ELSE << >>
         /\ next_id = Len(gaps) + 1
   /\ bills = << >>
   /\ amount_tolerance_cents = 500
   /\ date_window_days = 7
   /\ result = [op |-> "none"]
   /\ last_capture = NoCapture
   /\ fn_in = << >>
   /\ fn_out = << >>
   /\ subscriptions = << >>
   /\ runs = << >>

NextDet ==
   \/ detect_subscriptions
   \/ ConfirmDetected

SpecDet == InitDet /\ [][NextDet]_vars

\* Two runs of detection and confirmation on one database that holds the
\* charges of up to MaxSeries vendors; their statements interleave.
InitConfirmRuns ==
   /\ \E picked \in SUBSET ChargeSeries :
         /\ Cardinality(picked) <= MaxSeries
         /\ acct_txns = ChargeRows(picked, "account", 0)
         /\ card_txns = ChargeRows(picked, "card", Len(ChargeRows(picked, "account", 0)))
         /\ next_id = Len(ChargeRows(picked, "account", 0)) + Len(ChargeRows(picked, "card", 0))
   /\ bills \in DetectorBills
   /\ amount_tolerance_cents = 500
   /\ date_window_days = 7
   /\ result = [op |-> "none"]
   /\ last_capture = NoCapture
   /\ fn_in = << >>
   /\ fn_out = << >>
   /\ subscriptions = << >>
   /\ runs = [r \in RunIds |-> IdleRun]

NextConfirmRuns ==
   \E r \in RunIds :
      \/ ConfirmBegin(r)
      \/ ConfirmCheck(r)
      \/ ConfirmInsert(r)

SpecConfirmRuns == InitConfirmRuns /\ [][NextConfirmRuns]_vars

\* Two runs of the statement linker on one database that holds bills and
\* manually entered transactions; their statements interleave.
InitLinkRuns ==
   /\ \E picked \in SUBSET (1..Len(LinkEvents)) :
         /\ Cardinality(picked) <= MaxLinkTxns
         /\ acct_txns = LinkRows(picked, 1, 0)
         /\ card_txns = << >>
         /\ next_id = Cardinality(picked)
   /\ \E setup \in LinkSetups :
         /\ bills = setup.bills
         /\ amount_tolerance_cents = setup.amount_tolerance_cents
         /\ date_window_days = setup.date_window_days
   /\ result = [op |-> "none"]
   /\ last_capture = NoCapture
   /\ fn_in = << >>
   /\ fn_out = << >>
   /\ subscriptions = << >>
   /\ runs = [r \in RunIds |-> IdleRun]

NextLinkRuns ==
   \E r \in RunIds :
      \/ \E account_id \in Accounts \cup {NoId} : LinkBegin(r, account_id)
      \/ LinkWrite(r)

SpecLinkRuns == InitLinkRuns /\ [][NextLinkRuns]_vars

\* The manual confirmation and the statement linker working on a database
\* that holds two transactions with one description.
InitLearn ==
   /\ \E description \in LearnDescriptions : acct_txns = LearnRows(description)
   /\ card_txns = << >>
   /\ next_id = 2
   /\ \E setup \in LinkSetups :
         /\ bills = setup.bills
         /\ amount_tolerance_cents = setup.amount_tolerance_cents
         /\ date_window_days = setup.date_window_days
   /\ result = [op |-> "none"]
   /\ last_capture = NoCapture
   /\ fn_in = << >>
   /\ fn_out = << >>
   /\ subscriptions = << >>
   /\ runs = << >>

SpecLearn == InitLearn /\ [][NextLink]_vars

----------------------------------------------------------------------------
(* Claims about fingerprint deduplication                                  *)

\* every transaction row of the two tables, with the table it is in
AllRows ==
   {[table |-> "account", row |-> acct_txns[i]] : i \in 1..Len(acct_txns)}
   \cup {[table |-> "card", row |-> card_txns[i]] : i \in 1..Len(card_txns)}

\* C1: no non-null fingerprint is held by more than one transaction row of
\* the account and card tables taken together.
C1_FingerprintUniqueAcrossStores ==
   \A x, y \in AllRows :
      (x.row.txn_fingerprint # NoText /\ x.row.txn_fingerprint = y.row.txn_fingerprint)
         => x.row.id = y.row.id

\* the transactions of a batch that have a date, a description, an integer
\* amount and a category
CapWellFormed(txn) == CapParses(txn) /\ txn.category # JsonNull

\* C2: importing again the batch that import_transactions imported last, into
\* either table, imports nothing, reports every transaction as skipped or as
\* an error, none of the well-formed ones as an error, and adds no row.
C2_ReimportSkipsEverything ==
   [][ (result'.op = "import_transactions" /\ last_capture.data # << >>
        /\ result'.data = last_capture.data)
       => /\ result'.imported = 0
          /\ result'.skipped + Len(result'.errors) = Len(result'.data)
          /\ \A k \in 1..Len(result'.errors) : ~CapWellFormed(result'.data[result'.errors[k] + 1])
          /\ Len(acct_txns') = Len(acct_txns)
          /\ Len(card_txns') = Len(card_txns) ]_vars

\* C2 witness: a batch of two well-formed transactions, captured into the
\* card table, was imported again into the account table and skipped whole.
C2_Witness ==
   /\ result.op = "import_transactions"
   /\ last_capture.repeated
   /\ result.entity_type = "account"
   /\ result.imported = 0
   /\ result.skipped = 2
   /\ Len(card_txns) = 2
   /\ Len(acct_txns) = 0

\* the channel that wrote a row, as far as the row tells
Channel(row) ==
   IF row.plaid_txn_id # NoId THEN "bank-api"
   ELSE IF row.txn_fingerprint # NoText THEN "fingerprinted import"
   ELSE "manual"

\* C3: every row carries the fingerprint of its (date, description, amount),
\* and the same (date, description, amount) arriving through two different
\* channels is stored once.
C3_OneRecordPerEvent ==
   /\ \A x \in AllRows : x.row.txn_fingerprint # NoText
   /\ \A x, y \in AllRows :
         (/\ x.row.transaction_date = y.row.transaction_date
          /\ x.row.description = y.row.description
          /\ x.row.amount_cents = y.row.amount_cents
          /\ Channel(x.row) # Channel(y.row))
            => x.row.id = y.row.id

\* "the description uppercased with every character outside A-Z and 0-9
\* removed", character by character
RECURSIVE UpperAlnum(_)
UpperAlnum(s) ==
   IF s = << >> THEN << >>
   ELSE LET c == IF s[1] \in {"a","b","c","d","e","f","g","h","i","j","k","l","m",
                              "n","o","p","q","r","s","t","u","v","w","x","y","z"}
                  THEN AsciiPrintable[Ord(s[1]) - 63] ELSE s[1]
        IN (IF c \in {"A","B","C","D","E","F","G","H","I","J","K","L","M","N","O","P","Q",
                      "R","S","T","U","V","W","X","Y","Z","0","1","2","3","4","5","6","7",
                      "8","9"}
            THEN <<c>> ELSE << >>) \o UpperAlnum(Tail(s))

LowerHex == {"0","1","2","3","4","5","6","7","8","9","a","b","c","d","e","f"}

\* C4: a fingerprint is 16 lowercase hexadecimal characters, and two inputs
\* with the same date, the same upper-cased alphanumeric description and the
\* same amount have the same fingerprint.
C4_FingerprintDeterministic ==
   fn_out # << >> =>
      /\ \A k \in {1, 2} : Len(fn_out[k]) = 16 /\ \A i \in 1..Len(fn_out[k]) : fn_out[k][i] \in LowerHex
      /\ (/\ fn_in[1][1] = fn_in[2][1]
          /\ UpperAlnum(fn_in[1][2]) = UpperAlnum(fn_in[2][2])
          /\ fn_in[1][3] = fn_in[2][3])
            => fn_out[1] = fn_out[2]

\* C4 witness: two descriptions that differ in case and punctuation only
\* were fingerprinted and got the same value.
C4_Witness ==
   /\ fn_out # << >>
   /\ fn_in[1][2] = DescJcpl
   /\ fn_in[2][2] = DescJcplVariant
   /\ fn_in[1][1] = fn_in[2][1]
   /\ fn_in[1][3] = fn_in[2][3]
   /\ fn_out[1] = fn_out[2]

----------------------------------------------------------------------------
(* Claims about the statement linker                                       *)

\* row i was in the unmatched scan of the link_transactions call that made
\* this step
WasScanned(i) ==
   /\ ~acct_txns[i].is_matched
   /\ (result'.account_id = NoId \/ acct_txns[i].account_id = result'.account_id)

\* the score of account row i against bill k, times Den
Score(i, k) == score_match(acct_txns[i], bills[k], amount_tolerance_cents, date_window_days)
Den == ScoreDen(amount_tolerance_cents, date_window_days)

\* bill k is active, its score against row i is the maximum over the active
\* bills, and that score is at least 0.4
BestActive(i, k) ==
   /\ bills[k].is_active
   /\ \A j \in 1..Len(bills) : bills[j].is_active => Score(i, j) <= Score(i, k)
   /\ 10 * Score(i, k) >= 4 * Den

LinkedTo(row, bill_id) == row.is_matched /\ row.linked_bill_id = bill_id

\* a scanned row without any active bill scoring 0.4 stays unmatched, and
\* no scanned row is linked to an inactive bill
NoneBelowThreshold(i) ==
   /\ (\A k \in 1..Len(bills) : ~BestActive(i, k))
         => (~acct_txns'[i].is_matched /\ acct_txns'[i].linked_bill_id = NoId)
   /\ \A k \in 1..Len(bills) : ~bills[k].is_active => ~LinkedTo(acct_txns'[i], bills[k].id)

\* C5 as stated: link_transactions links a scanned transaction to bill B
\* exactly when B is an active bill whose score is the maximum over the
\* active bills and at least 0.4; otherwise the transaction stays unmatched,
\* and an inactive bill is never chosen.
C5_LinksExactlyTheBestBills ==
   [][ result'.op = "link_transactions" =>
          \A i \in 1..Len(acct_txns) : WasScanned(i) =>
             /\ \A k \in 1..Len(bills) : LinkedTo(acct_txns'[i], bills[k].id) <=> BestActive(i, k)
             /\ NoneBelowThreshold(i) ]_vars

\* C5 amended: link_transactions links a scanned transaction to bill B
\* exactly when B is the first bill, in the order of the bill table, among
\* the active bills whose score is the maximum over the active bills and at
\* least 0.4; otherwise the transaction stays unmatched, and an inactive bill
\* is never chosen.
C5_LinksTheFirstBestBill ==
   [][ result'.op = "link_transactions" =>
          \A i \in 1..Len(acct_txns) : WasScanned(i) =>
             /\ \A k \in 1..Len(bills) :
                   LinkedTo(acct_txns'[i], bills[k].id)
                   <=> (BestActive(i, k) /\ \A j \in 1..(k - 1) : ~BestActive(i, j))
             /\ NoneBelowThreshold(i) ]_vars

\* C5 witness: with two bills scoring 1.0 against the same transaction, a
\* link run has linked it to the first of them.
C5_Witness ==
   /\ result.op = "link_transactions"
   /\ Len(bills) = 2 /\ bills[2].id = "bill-jcpl-2"
   /\ \E i \in 1..Len(acct_txns) :
         /\ LinkedTo(acct_txns[i], "bill-jcpl")
         /\ Score(i, 1) = Den /\ Score(i, 2) = Den
         /\ \E m \in 1..Len(result.matches) : result.matches[m].transaction_id = acct_txns[i].id

\* C6: a link_transactions run that directly follows a run with the same
\* account filter matches nothing, and its total_unmatched is the earlier
\* run's total_unmatched minus the earlier run's matched.
C6_SecondRunMatchesNothing ==
   [][ (/\ result.op = "link_transactions"
        /\ result'.op = "link_transactions"
        /\ result'.account_id = result.account_id)
       => /\ result'.matched = 0
          /\ result'.total_unmatched = result.total_unmatched - result.matched ]_vars

\* C6 witness: a second run in a row came after a run that had matched a
\* transaction and left another one unmatched.
C6_Witness ==
   /\ result.op = "link_transactions"
   /\ result.repeated
   /\ result.matched = 0
   /\ result.total_unmatched = 1
   /\ \E i \in 1..Len(acct_txns) :
         /\ acct_txns[i].is_matched
         /\ result.account_id \in {NoId, acct_txns[i].account_id}

\* C7: once a transaction is matched, no link_transactions or confirm_match
\* step clears its matched flag or changes its linked bill.
C7_MatchedOnce ==
   [][ \A i \in 1..Len(acct_txns) :
          acct_txns[i].is_matched
             => /\ acct_txns'[i].is_matched
                /\ acct_txns'[i].linked_bill_id = acct_txns[i].linked_bill_id ]_vars

\* C8: for every transaction and bill of the database, under every
\* tolerance and window >= 0, the description signal is 0 or 0.5, the amount
\* signal lies in [0, 0.3], the date signal in [0, 0.2], and the score, which
\* link_transactions reports, lies in [0, 1].
C8_ScoreBounds ==
   /\ \A i \in 1..Len(acct_txns), k \in 1..Len(bills) :
         LET d == DescriptionSignal(acct_txns[i], bills[k], amount_tolerance_cents, date_window_days)
             a == AmountSignal(acct_txns[i], bills[k], amount_tolerance_cents, date_window_days)
             t == DateSignal(acct_txns[i], bills[k], amount_tolerance_cents, date_window_days)
         IN /\ 10 * d \in {0, 5 * Den}
            /\ 0 <= a /\ 10 * a <= 3 * Den
            /\ 0 <= t /\ 10 * t <= 2 * Den
            /\ 0 <= Score(i, k) /\ Score(i, k) <= Den
   /\ result.op = "link_transactions" =>
         \A m \in 1..Len(result.matches) :
            0 <= result.matches[m].score /\ result.matches[m].score <= Den

\* C8 witness: a link run has reported a score made of a description match
\* and partial credit for both the amount and the date.
C8_Witness ==
   /\ result.op = "link_transactions"
   /\ \E i \in 1..Len(acct_txns), k \in 1..Len(bills), m \in 1..Len(result.matches) :
         LET a == AmountSignal(acct_txns[i], bills[k], amount_tolerance_cents, date_window_days)
             t == DateSignal(acct_txns[i], bills[k], amount_tolerance_cents, date_window_days)
         IN /\ result.matches[m].transaction_id = acct_txns[i].id
            /\ result.matches[m].bill_id = bills[k].id
            /\ result.matches[m].score = Score(i, k)
            /\ 0 < a /\ 10 * a < 3 * Den
            /\ 0 < t /\ 10 * t < 2 * Den

\* the description of row i contains, whatever the case, a pattern of bill k
HasPattern(i, k) ==
   \E p \in 1..Len(bills[k].match_patterns) :
      Contains(Upper(acct_txns[i].description), Upper(bills[k].match_patterns[p]))

\* C9: link_transactions never links a transaction to a bill none of whose
\* patterns occurs in the transaction's description.
C9_NoLinkWithoutPattern ==
   [][ result'.op = "link_transactions" =>
          \A i \in 1..Len(acct_txns), k \in 1..Len(bills) :
             (WasScanned(i) /\ ~HasPattern(i, k)) => ~LinkedTo(acct_txns'[i], bills[k].id) ]_vars

\* the date of row i is an ISO date on the due day of bill k
OnDueDay(i, k) ==
   /\ bills[k].due_day # NoDay
   /\ ParseIsoDate(acct_txns[i].transaction_date) # << >>
   /\ ParseIsoDate(acct_txns[i].transaction_date)[3] = bills[k].due_day

\* the run that made this step matched row i and reported for it a score of
\* at least tenths / 10
Reported(i, tenths) ==
   /\ acct_txns'[i].is_matched
   /\ \E m \in 1..Len(result'.matches) :
         /\ result'.matches[m].transaction_id = acct_txns[i].id
         /\ 10 * result'.matches[m].score >= tenths * Den

AmountDiff(i, k) == Abs(Abs(acct_txns[i].amount_cents) - bills[k].amount_cents)

TiedBest(i) == {k \in 1..Len(bills) : BestActive(i, k)}

\* the entries of the returned matches list that are about row i
MatchesOf(i) ==
   {m \in 1..Len(result'.matches) : result'.matches[m].transaction_id = acct_txns[i].id}

\* C11: when two or more active bills tie for the highest score (at least
\* 0.4) against a scanned transaction, link_transactions links it to the one
\* that comes first in the bill table's order, and to that bill only: the
\* transaction is reported once, with that bill.
C11_TieGoesToFirstBill ==
   [][ result'.op = "link_transactions" =>
          \A i \in 1..Len(acct_txns) :
             (WasScanned(i) /\ Cardinality(TiedBest(i)) >= 2) =>
                LET first == CHOOSE k \in TiedBest(i) : \A j \in TiedBest(i) : k <= j
                IN /\ acct_txns'[i].is_matched
                   /\ acct_txns'[i].linked_bill_id = bills[first].id
                   /\ Cardinality(MatchesOf(i)) = 1
                   /\ \A m \in MatchesOf(i) : result'.matches[m].bill_id = bills[first].id
                   /\ \A k \in TiedBest(i) \ {first} : bills[k].id # acct_txns'[i].linked_bill_id ]_vars

\* C11 witness: a link run has linked a transaction for which both bills of
\* the table are active and have the same accepted score; it carries the
\* first bill's id and not the second's.
C11_Witness ==
   /\ result.op = "link_transactions"
   /\ result.matched >= 1
   /\ Len(bills) = 2 /\ bills[1].is_active /\ bills[2].is_active /\ bills[1].id # bills[2].id
   /\ \E i \in 1..Len(acct_txns) :
         /\ Score(i, 1) = Score(i, 2) /\ 10 * Score(i, 1) >= 4 * Den
         /\ acct_txns[i].is_matched /\ acct_txns[i].linked_bill_id = bills[1].id
         /\ \E m \in 1..Len(result.matches) :
               /\ result.matches[m].transaction_id = acct_txns[i].id
               /\ result.matches[m].bill_id = bills[1].id
               /\ result.matches[m].score = Score(i, 1)

\* this step is what confirm_match does for account row i and bill k, both
\* in the store: the row is flagged and linked, the bill learns the pattern
ConfirmedPair(i, k) ==
   /\ acct_txns' = SetMatched(acct_txns, acct_txns[i].id, bills[k].id)
   /\ bills' = learn_pattern(bills, bills[k].id, acct_txns[i].description)

\* C12 as stated: a confirm_match call whose transaction id or bill id is not
\* in the store fails with NotFound and changes no transaction's matched flag
\* or linked bill and no bill's pattern list; so every confirm_match step is
\* either the confirmation of a stored transaction with a stored bill, or a
\* NotFound failure that leaves transactions and bills as they were.
C12_MissingIdRaisesNotFound ==
   [][ result'.op = "confirm_match" =>
          \/ /\ result'.raised = "none"
             /\ \E i \in 1..Len(acct_txns), k \in 1..Len(bills) : ConfirmedPair(i, k)
          \/ /\ result'.raised = "NotFound"
             /\ acct_txns' = acct_txns /\ card_txns' = card_txns /\ bills' = bills ]_vars

\* the tokens of a description that are not stop words, upper-cased
NonStopTokens(description) ==
   SelectSeq(Split(Upper(description)), LAMBDA w : w \notin StopWords)

\* the first three of them, joined by single blanks
KeyPattern(description) ==
   LET tokens == NonStopTokens(description)
   IN Join(SubSeq(tokens, 1, Min(PatternWords, Len(tokens))))

InList(patterns, p) == \E n \in 1..Len(patterns) : patterns[n] = p

NoPatternTwice(bs) ==
   \A k \in 1..Len(bs) : \A m, n \in 1..Len(bs[k].match_patterns) :
      bs[k].match_patterns[m] = bs[k].match_patterns[n] => m = n

\* KeyPattern of every description a linker row can carry
KeyPatternTable ==
   [d \in {LinkEvents[e].description : e \in 1..Len(LinkEvents)} |-> KeyPattern(d)] @@ << >>

\* C13: a confirm_match step for a stored transaction i and a stored bill k
\* flags the transaction, links it to the bill and touches no other
\* transaction; the bill's pattern list gets the pattern of the first three
\* non-stop-word tokens of the description appended when the list does not
\* hold it, and is left alone when it does; a step from a state in which the
\* transaction is already linked to the bill and the list already holds the
\* pattern (the state a first call leaves) changes nothing; and no bill's list
\* ever holds a pattern twice.
C13_ConfirmLearnsOnce ==
   [][ /\ NoPatternTwice(bills')
       /\ (result'.op = "confirm_match" /\ result'.raised = "none") =>
             \A i \in 1..Len(acct_txns), k \in 1..Len(bills) :
                (KeyPatternTable[acct_txns[i].description] # << >> /\ ConfirmedPair(i, k)) =>
                   LET p == KeyPatternTable[acct_txns[i].description]
                       old == bills[k].match_patterns
                   IN /\ LinkedTo(acct_txns'[i], bills[k].id)
                      /\ \A j \in 1..Len(acct_txns) : j # i => acct_txns'[j] = acct_txns[j]
                      /\ bills'[k].match_patterns = IF InList(old, p) THEN old ELSE Append(old, p)
                      /\ InList(bills'[k].match_patterns, p)
                      /\ (LinkedTo(acct_txns[i], bills[k].id) /\ InList(old, p))
                            => (acct_txns' = acct_txns /\ bills' = bills) ]_vars

\* C13 witness: after a confirm_match, a transaction is linked to the water
\* bill, whose pattern list was empty and now ends with that transaction's
\* pattern.
C13_Witness ==
   /\ result.op = "confirm_match" /\ result.raised = "none"
   /\ \E i \in 1..Len(acct_txns), k \in 1..Len(bills) :
         /\ bills[k].id = BillWater.id
         /\ LinkedTo(acct_txns[i], bills[k].id)
         /\ bills[k].match_patterns # BillWater.match_patterns
         /\ bills[k].match_patterns[Len(bills[k].match_patterns)] = KeyPattern(acct_txns[i].description)

\* list new is list old, or list old with one more pattern at its end
SameOrOneAppended(old, new) ==
   \/ new = old
   \/ Len(new) = Len(old) + 1 /\ SubSeq(new, 1, Len(old)) = old

\* C14: the statement linker changes a bill only by appending a learned
\* pattern during confirm_match.  No step of link_transactions or
\* confirm_match adds, drops or reorders bills, or changes a bill's id,
\* amount, due day or active flag; a bill's pattern list keeps its patterns in
\* their order and grows by at most one pattern at its end; link_transactions
\* leaves every bill as it was, and at most one bill changes in a step.
C14_BillsOnlyGainPatterns ==
   [][ /\ Len(bills') = Len(bills)
       /\ \A k \in 1..Len(bills) :
             /\ [bills'[k] EXCEPT !.match_patterns = bills[k].match_patterns] = bills[k]
             /\ SameOrOneAppended(bills[k].match_patterns, bills'[k].match_patterns)
             /\ bills'[k] # bills[k] =>
                   /\ result'.op = "confirm_match"
                   /\ \A j \in 1..Len(bills) : j # k => bills'[j] = bills[j]
       /\ result'.op = "link_transactions" => bills' = bills ]_vars

\* C14 witness: after a confirm_match, a bill of some setup that had at
\* least one pattern holds one more, behind the ones it had, and is otherwise
\* as the setup defined it.
C14_Witness ==
   /\ result.op = "confirm_match"
   /\ \E setup \in LinkSetups :
         /\ Len(setup.bills) = Len(bills)
         /\ \E k \in 1..Len(bills) :
               /\ setup.bills[k].match_patterns # << >>
               /\ Len(bills[k].match_patterns) = Len(setup.bills[k].match_patterns) + 1
               /\ SubSeq(bills[k].match_patterns, 1, Len(setup.bills[k].match_patterns))
                     = setup.bills[k].match_patterns
               /\ [bills[k] EXCEPT !.match_patterns = setup.bills[k].match_patterns] = setup.bills[k]

\* some active bill scores at least 0.4 against the transaction row
SomeActiveBillAccepts(row) ==
   \E k \in 1..Len(bills) :
      /\ bills[k].is_active
      /\ Accepts(score_match(row, bills[k], amount_tolerance_cents, date_window_days),
                 amount_tolerance_cents, date_window_days)

\* C15 as stated: after a link_transactions call without an account filter,
\* no transaction of the account store or of the card store is left
\* unmatched while some active bill scores at least 0.4 against it.
C15_NoFilterLinksBothStores ==
   [][ (result'.op = "link_transactions" /\ result'.account_id = NoId) =>
          /\ \A i \in 1..Len(acct_txns') :
                ~acct_txns'[i].is_matched => ~SomeActiveBillAccepts(acct_txns'[i])
          /\ \A i \in 1..Len(card_txns') :
                ~card_txns'[i].is_matched => ~SomeActiveBillAccepts(card_txns'[i]) ]_vars

----------------------------------------------------------------------------
(* Claims about the vendor normalizer and the recurring charge detector    *)

\* C16 as stated: normalize_vendor is idempotent; a second application to
\* its own output returns that output.
C16_NormalizeVendorIdempotent ==
   \A n \in 2..Len(fn_out) : fn_out[n] = fn_out[n - 1]

\* the vendor keys of a list of candidates
Keys(candidates) == {candidates[n].match_pattern : n \in 1..Len(candidates)}

\* the rows of the subscription table that carry the vendor key
SubsWithKey(subs, key) == {i \in 1..Len(subs) : subs[i].match_pattern = key}

\* C17: detect_subscriptions followed by confirm_detected on its output,
\* twice in succession, creates exactly one Subscription per detected vendor
\* key.  A confirm_detected step that directly follows a detection stores one
\* row for the key of every candidate passed and returns their number; a
\* detection that directly follows a confirm_detected returns no candidate
\* with a confirmed key; a confirm_detected adds no row for a candidate whose
\* key already has a subscription, and returns 0 when that is so for every
\* candidate passed.
C17_DetectConfirmTwiceCreatesOne ==
   [][ /\ (result.op = "detect_subscriptions" /\ result'.op = "confirm_detected") =>
             /\ \A key \in Keys(result'.candidates) :
                   Cardinality(SubsWithKey(subscriptions', key)) = 1
             /\ result'.count = Len(result'.candidates)
       /\ (result.op = "confirm_detected" /\ result'.op = "detect_subscriptions") =>
             Keys(result'.candidates) \cap Keys(result.candidates) = {}
       /\ result'.op = "confirm_detected" =>
             /\ \A key \in Keys(result'.candidates) :
                   SubsWithKey(subscriptions, key) # {}
                      => SubsWithKey(subscriptions', key) = SubsWithKey(subscriptions, key)
             /\ (\A key \in Keys(result'.candidates) : SubsWithKey(subscriptions, key) # {})
                   => (result'.count = 0 /\ subscriptions' = subscriptions)
             /\ Len(subscriptions') = Len(subscriptions) + result'.count ]_vars

\* C17 witness: a list of candidates was confirmed a second time; the call
\* returned 0 and every key of the list has one detected subscription.
C17_Witness ==
   /\ result.op = "confirm_detected"
   /\ result.candidates # << >> /\ result.count = 0
   /\ \A key \in Keys(result.candidates) :
         /\ Cardinality(SubsWithKey(subscriptions, key)) = 1
         /\ \A i \in SubsWithKey(subscriptions, key) : subscriptions[i].source = "detected"

\* C18 as stated: whatever sequence of confirm_detected, add_subscription
\* and cancel_subscription was run, the subscription table holds at most one
\* row for any vendor key.
C18_OneSubscriptionPerKey ==
   \A i, j \in 1..Len(subscriptions) :
      subscriptions[i].match_pattern = subscriptions[j].match_pattern => i = j

\* the number of rows detect_subscriptions groups under the vendor key:
\* account debits and card charges inside the window
ChargeCount(key) ==
   LET seen == VendorRows(acct_txns, card_txns)
   IN Cardinality({i \in 1..Len(seen) : seen[i].vendor = key})

\* C19: detect_subscriptions returns no candidate whose vendor key is the
\* vendor key of a subscription in the table, whatever its status, or is one
\* of the match patterns of an active bill.
C19_KnownVendorsNotDetected ==
   [][ result'.op = "detect_subscriptions" =>
          \A key \in Keys(result'.candidates) :
             /\ SubsWithKey(subscriptions, key) = {}
             /\ \A k \in 1..Len(bills) :
                   bills[k].is_active
                      => \A n \in 1..Len(bills[k].match_patterns) : bills[k].match_patterns[n] # key ]_vars

\* C19 witness: a detection has returned nothing for a vendor with three
\* charges that has a subscription, and nothing for another vendor with three
\* charges whose key is a pattern of an active bill.
C19_Witness ==
   /\ result.op = "detect_subscriptions"
   /\ \E i \in 1..Len(subscriptions) :
         /\ ChargeCount(subscriptions[i].match_pattern) >= MinOccurrences
         /\ subscriptions[i].match_pattern \notin Keys(result.candidates)
   /\ \E k \in 1..Len(bills), n \in 1..Len(BillJcpl.match_patterns) :
         /\ bills[k].is_active /\ bills[k].match_patterns = BillJcpl.match_patterns
         /\ ChargeCount(bills[k].match_patterns[n]) >= MinOccurrences
         /\ bills[k].match_patterns[n] \notin Keys(result.candidates)

----------------------------------------------------------------------------
(* Claims about frequency classification, confidence and the detector's    *)
(* inputs and effects                                                      *)

\* the days of the rows the detector groups under the vendor key, ascending
GroupDays(key) ==
   LET seen == VendorRows(acct_txns, card_txns)
       group == SelectSeq(seen, LAMBDA t : t.vendor = key)
       order == StableOrder([i \in 1..Len(group) |-> ToOrdinal(group[i].date)])
   IN [p \in 1..Len(group) |-> ToOrdinal(group[order[p]].date)]

\* the distances in days between consecutive days of the group
GroupIntervals(key) ==
   LET days == GroupDays(key)
   IN [i \in 1..(Len(days) - 1) |-> days[i + 1] - days[i]]

\* twice the median of a non-empty list: twice the middle item of the sorted
\* list when the length is odd, the sum of the two middle items when even
TwiceMedianOf(intervals) ==
   LET order == StableOrder(intervals)
       n == Len(intervals)
   IN IF n % 2 = 1 THEN 2 * intervals[order[(n + 1) \div 2]]
      ELSE intervals[order[n \div 2]] + intervals[order[(n \div 2) + 1]]

MedianInRange(intervals, frequency) ==
   /\ 2 * Bucket(frequency).lo <= TwiceMedianOf(intervals)
   /\ TwiceMedianOf(intervals) <= 2 * Bucket(frequency).hi

\* the vendor keys of the gathered rows that no subscription and no bill
\* excludes and that have at least MinOccurrences rows
OpenKeys ==
   LET seen == VendorRows(acct_txns, card_txns)
   IN {key \in {seen[i].vendor : i \in 1..Len(seen)} :
          /\ key \notin get_all_match_patterns(subscriptions) \cup get_bill_patterns(bills)
          /\ ChargeCount(key) >= MinOccurrences}

CandidatesOf(candidates, key) ==
   {n \in 1..Len(candidates) : candidates[n].match_pattern = key}

\* abs(amount_cents) of the rows of the group
GroupAmounts(key) ==
   LET seen == VendorRows(acct_txns, card_txns)
       group == SelectSeq(seen, LAMBDA t : t.vendor = key)
   IN [i \in 1..Len(group) |-> group[i].amount_cents]

\* C21 as stated: after detect_subscriptions, a vendor group of three or
\* more rows that nothing excludes is returned with frequency f only when
\* the median of its day-intervals lies in f's inclusive range, is returned
\* with f when the median lies in f's range (unless its confidence is below
\* the threshold), and is not returned when the median lies in no range; the
\* median of an even number of intervals is the mean of the two middle ones.
C21_ClassifiedByMedian ==
   [][ result'.op = "detect_subscriptions" =>
          \A key \in OpenKeys :
             LET intervals == GroupIntervals(key)
                 found == CandidatesOf(result'.candidates, key)
             IN /\ \A n \in found : MedianInRange(intervals, result'.candidates[n].frequency)
                /\ \A f \in Frequencies :
                      MedianInRange(intervals, f) =>
                         \/ \E n \in found : result'.candidates[n].frequency = f
                         \/ score_confidence(Len(intervals) + 1, intervals,
                                             GroupAmounts(key), f) < MinConfidence
                /\ (\A f \in Frequencies : ~MedianInRange(intervals, f)) => found = {} ]_vars

\* the three parts of the confidence of a group, from the rows in the store:
\* the count part, the share of intervals inside the range of the frequency
\* out of 40, and 30 for amounts within 10% of their mean, falling to 0 at 30%
CountPart(key) == Min(ChargeCount(key), 6) * 5

IntervalPart(key, frequency) ==
   LET intervals == GroupIntervals(key)
       inside == {i \in 1..Len(intervals) :
                     /\ Bucket(frequency).lo <= intervals[i]
                     /\ intervals[i] <= Bucket(frequency).hi}
   IN (Cardinality(inside) * 40) \div Len(intervals)

AmountPart(key) ==
   LET amounts == GroupAmounts(key)
       total == SumSeq(amounts)
       n == Len(amounts)
       worst == CHOOSE i \in 1..n : \A j \in 1..n :
                   Abs(n * amounts[j] - total) <= Abs(n * amounts[i] - total)
       spread == Abs(n * amounts[worst] - total)
   IN IF 10 * spread <= total THEN 30
      ELSE IF 10 * spread >= 3 * total THEN 0
      ELSE (45 * total - 150 * spread) \div total

LowConfidenceDiscarded ==
   /\ result.op = "detect_subscriptions"
   /\ \E key \in OpenKeys :
         LET frequency == classify_frequency(GroupIntervals(key))
         IN /\ frequency # NoFrequency
            /\ CountPart(key) + IntervalPart(key, frequency) + AmountPart(key) < 40
            /\ CandidatesOf(result.candidates, key) = {}

\* the account debits (negative amount) inside the window whose vendor key
\* is key, and the card rows with that key
AccountDebits(key) ==
   {i \in 1..Len(acct_txns) :
       /\ acct_txns[i].amount_cents < 0 /\ InWindow(acct_txns[i].transaction_date)
       /\ normalize_vendor(acct_txns[i].description) = key}

CardRowsOf(key) ==
   {i \in 1..Len(card_txns) : normalize_vendor(card_txns[i].description) = key}

\* the vendor's transactions are three or more account debits of one amount
\* inside the window, each spacing days after the one before
RegularDebits(key, spacing) ==
   /\ Cardinality(AccountDebits(key)) >= 3
   /\ CardRowsOf(key) = {}
   /\ \A i, j \in AccountDebits(key) : acct_txns[i].amount_cents = acct_txns[j].amount_cents
   /\ \A n \in 1..Len(GroupIntervals(key)) : GroupIntervals(key)[n] = spacing

SpacingFrequency(spacing) ==
   CASE spacing = 7 -> "weekly" [] spacing = 30 -> "monthly" [] spacing = 90 -> "quarterly"

QuarterlyDetected ==
   /\ result.op = "detect_subscriptions"
   /\ RegularDebits(SeededVendor, 90)
   /\ Len(result.candidates) = 1
   /\ result.candidates[1].frequency = "quarterly"
   /\ result.candidates[1].next_charge_date = <<"2", "0", "2", "6", "-", "0", "7", "-", "0", "9">>

\* the card rows with the sign of the amount turned, so that the query for
\* card amounts above 0 reads the debit-signed (negative) card rows
SignTurned(cards) ==
   [i \in 1..Len(cards) |-> [cards[i] EXCEPT !.amount_cents = -cards[i].amount_cents]]

\* the rows of either store inside the window with a negative amount and the
\* vendor key
DebitSigned(key) ==
   AccountDebits(key)
      \cup {Len(acct_txns) + i : i \in {j \in 1..Len(card_txns) :
               /\ card_txns[j].amount_cents < 0 /\ InWindow(card_txns[j].transaction_date)
               /\ normalize_vendor(card_txns[j].description) = key}}

\* C24 as stated: detect_subscriptions returns the candidates that the
\* debit-signed (negative) transactions of both stores inside the window
\* give rise to; every candidate's key has three or more of them, and
\* credit-signed (positive) transactions count for nothing.
C24_GroupsFromDebitSignedRows ==
   [][ result'.op = "detect_subscriptions" =>
          /\ \A key \in Keys(result'.candidates) : Cardinality(DebitSigned(key)) >= 3
          /\ result'.candidates
                = DetectedFrom(acct_txns, SignTurned(card_txns), subscriptions, bills) ]_vars

\* the rows of the subscription table added by the step
AddedRows == (Len(subscriptions) + 1)..Len(subscriptions')

\* C25: detect_subscriptions changes nothing in the store: the subscription
\* table, both transaction tables and the bills are as before.  A row for a
\* detected candidate is added only by a confirm_detected step that was
\* passed the candidate.
C25_DetectionWritesNothing ==
   [][ /\ result'.op = "detect_subscriptions" =>
             /\ subscriptions' = subscriptions
             /\ acct_txns' = acct_txns
             /\ card_txns' = card_txns
             /\ bills' = bills
             /\ next_id' = next_id
       /\ \A i \in AddedRows :
             subscriptions'[i].source = "detected" =>
                /\ result'.op = "confirm_detected"
                /\ subscriptions'[i].match_pattern \in Keys(result'.candidates) ]_vars

\* C25 witness: a detection has returned candidates, and the subscription
\* table holds no row for any of them.
C25_Witness ==
   /\ result.op = "detect_subscriptions"
   /\ result.candidates # << >>
   /\ \A key \in Keys(result.candidates) : SubsWithKey(subscriptions, key) = {}

----------------------------------------------------------------------------
(* Claims about overlapping batch runs                                     *)

\* C26 as stated: whatever way the existence checks and the inserts of two
\* confirm_detected runs interleave, the subscription table never holds
\* more than one row created for a vendor key.
C26_OverlappingConfirmsCreateOne ==
   \A key \in Keys(subscriptions) : Cardinality(SubsWithKey(subscriptions, key)) <= 1

\* the ids of the transactions in the matches list of a run that is through
MatchedBy(r) ==
   IF runs[r].pc = "done"
   THEN {runs[r].matches[n].transaction_id : n \in 1..Len(runs[r].matches)}
   ELSE {}

\* C27 as stated: when two link_transactions runs overlap, no transaction
\* is in the matches list of both, so that its linked-bill reference is
\* written once at most.
C27_NoTransactionMatchedTwice ==
   \A r1, r2 \in RunIds : r1 # r2 => MatchedBy(r1) \cap MatchedBy(r2) = {}

----------------------------------------------------------------------------
(* Claims about the account filter, learned patterns and the linking pass   *)
(* of the CSV import                                                       *)

\* C28: a link_transactions step with a non-empty account filter leaves
\* every transaction of another account as it was, changes nothing but
\* is_matched and linked_bill_id of the transactions of the account, leaves
\* the card transactions, the bills and the subscriptions as they were, and
\* reports as total_unmatched the number of unmatched transactions of that
\* account.
C28_FilterConfinesLinking ==
   [][ (result'.op = "link_transactions" /\ result'.account_id # NoId) =>
          /\ Len(acct_txns') = Len(acct_txns)
          /\ \A i \in 1..Len(acct_txns) :
                /\ acct_txns[i].account_id # result'.account_id => acct_txns'[i] = acct_txns[i]
                /\ [acct_txns'[i] EXCEPT !.is_matched = FALSE, !.linked_bill_id = NoId]
                      = [acct_txns[i] EXCEPT !.is_matched = FALSE, !.linked_bill_id = NoId]
          /\ card_txns' = card_txns
          /\ bills' = bills
          /\ subscriptions' = subscriptions
          /\ result'.total_unmatched
                = Cardinality({i \in 1..Len(acct_txns) :
                                  /\ acct_txns[i].account_id = result'.account_id
                                  /\ ~acct_txns[i].is_matched}) ]_vars

\* C28 witness: a run with a filter has matched a transaction of its account
\* and has left unmatched a transaction of another account that an active
\* bill accepts.
C28_Witness ==
   /\ result.op = "link_transactions" /\ result.account_id # NoId
   /\ result.matched >= 1
   /\ \E i \in 1..Len(acct_txns) :
         /\ acct_txns[i].account_id # result.account_id
         /\ ~acct_txns[i].is_matched
         /\ SomeActiveBillAccepts(acct_txns[i])

\* this step links account row i to bill k, and the bill's pattern list is
\* one pattern longer after it
LearnedFrom(i, k) ==
   /\ result'.op = "confirm_match"
   /\ acct_txns' = SetMatched(acct_txns, acct_txns[i].id, bills[k].id)
   /\ Len(bills') = Len(bills)
   /\ Len(bills'[k].match_patterns) = Len(bills[k].match_patterns) + 1

\* the pattern at the end of the list of bill k after the step
LearnedPattern(k) == bills'[k].match_patterns[Len(bills'[k].match_patterns)]

\* C29 as stated: the pattern a confirm_match step learns from a
\* transaction occurs, whatever the case, in that transaction's description;
\* every unmatched transaction with the same description then scores at
\* least 0.5 against the bill and has a bill link_transactions links it to.
C29_LearnedPatternMatchesItsSource ==
   [][ \A i \in 1..Len(acct_txns), k \in 1..Len(bills) :
          LearnedFrom(i, k) =>
             /\ Contains(Upper(acct_txns[i].description), Upper(LearnedPattern(k)))
             /\ \A j \in 1..Len(acct_txns') :
                   (/\ acct_txns'[j].description = acct_txns[i].description
                    /\ ~acct_txns'[j].is_matched) =>
                      /\ 2 * score_match(acct_txns'[j], bills'[k], amount_tolerance_cents,
                                         date_window_days)
                            >= ScoreDen(amount_tolerance_cents, date_window_days)
                      /\ find_best_match(acct_txns'[j], ActiveBills(bills'),
                                         amount_tolerance_cents, date_window_days)[1] # NoId ]_vars

\* the first half alone: the learned pattern occurs in the description
LearnedPatternIsSubstring ==
   [][ \A i \in 1..Len(acct_txns), k \in 1..Len(bills) :
          LearnedFrom(i, k) =>
             Contains(Upper(acct_txns[i].description), Upper(LearnedPattern(k))) ]_vars

\* The account store as a csv_sync step has it between its row loop and its
\* linking pass: the rows after the step, those the pass linked unmatched again
StoreBeforeCsvLinking ==
   [i \in 1..Len(acct_txns') |->
      IF i <= Len(acct_txns) /\ acct_txns[i].is_matched THEN acct_txns'[i]
      ELSE [acct_txns'[i] EXCEPT !.is_matched = FALSE, !.linked_bill_id = NoId]]

\* what link_transactions without an account filter makes of a store
LinkedByLinker(rows) ==
   ApplyMatches(rows, MatchesFrom(rows, 1, NoId, ActiveBills(bills), amount_tolerance_cents,
                                  date_window_days), 1)

\* C30 as stated: the linking pass at the end of a csv_sync step leaves the
\* account store as link_transactions would leave it, run on the store the
\* pass started from: the same transactions linked, each to the same bill,
\* and the same transactions unmatched.
C30_CsvLinkingAgreesWithLinker ==
   [][ result'.op = "csv_sync" => acct_txns' = LinkedByLinker(StoreBeforeCsvLinking) ]_vars

\* the weaker relation between the two: what the linking pass of csv_sync
\* links, link_transactions links too, though not always to the same bill
CsvLinkedIsLinkerLinked ==
   [][ result'.op = "csv_sync" =>
          \A i \in 1..Len(acct_txns') :
             acct_txns'[i].is_matched => LinkedByLinker(StoreBeforeCsvLinking)[i].is_matched ]_vars

====
